---- MODULE Spec2Model ----
(***************************************************************************)
(* Model of the disk-image builder of pkg/mactools/dmg (dmg.go) and of the *)
(* dmg command (cmd/dmg/dmg.go).                                           *)
(*                                                                         *)
(* A build is one sequential control flow.  It is modelled as a stack of   *)
(* call frames; every frame carries the deferred calls registered so far,  *)
(* which run in LIFO order when the frame returns or a panic unwinds it.   *)
(* External tools and file-system calls that can fail are nondeterministic *)
(* (\E ok \in BOOLEAN).  A text (file name, path component) is a sequence  *)
(* of chunks, so that suffix tests and concatenations are computed.        *)
(***************************************************************************)
EXTENDS Integers, Sequences, FiniteSets, TLC

VARIABLES
    entry,    \* the public entry point this build was started through
    cfg,      \* the Config value as the running build sees it
    orig,     \* the Config value as the caller passed it
    stack,    \* call frames, innermost last
    mode,     \* "run", or "unwind" while deferred calls of a frame run
    ret,      \* value of the last return: "none", "ok", "err" or "panic"
    result,   \* what the entry point returned: "running", "ok", "err", "panic"
    images,   \* image files on disk: path -> [fmt, role, root, icon, store, sizeMB, title, from, level]
    dirs,     \* temporary / working directories that exist on disk
    staged,   \* entries of the staging directory: name -> StagedEntry
    mounts,   \* attached volumes: set of [img, mp]
    stageDir, \* the directory that holds the staged entries
    nextTmp,  \* counter that makes os.MkdirTemp names unique
    trace,    \* history of the operations performed: Seq of [op, fn, ok]
    other     \* a second build in the same file system, while it is not the
              \* one taking steps: its entry, cfg, ..., trace; NoBuild if none

vars == <<entry, cfg, orig, stack, mode, ret, result, images, dirs, staged,
          mounts, stageDir, nextTmp, trace, other>>

----------------------------------------------------------------------------
(* Texts, paths, directories                                               *)

\* strings.HasSuffix on a chunked text
HasSuffix(s, ext) == Len(s) > 0 /\ s[Len(s)] = ext

\* filepath.Base of a path given as a sequence of components
Base(p) == p[Len(p)]

NoPath == [dir |-> <<>>, name |-> <<>>]

\* the value of `other` when one build runs alone
NoBuild == [mode |-> "done"]
NoDir  == [role |-> "none", n |-> 0]

\* the ItemType constants
Dir  == "dir"
File == "file"
Link == "link"

\* 1024*1024, the divisor of the size estimates
MiB == 1048576

\* the hdiutil formats
UDRW == "UDRW"
UDRO == "UDRO"
UDZO == "UDZO"
UDBZ == "UDBZ"

\* temp_<UnixNano>_<base> next to the output file
TempName(f) == [dir |-> f.dir, name |-> <<"temp_", "<nano>", "_">> \o f.name]

\* temp_<base> next to the output file (CreateDMGLikeBash)
BashTempName(f) == [dir |-> f.dir, name |-> <<"temp_">> \o f.name]

\* if FileName == "" { FileName = Title + ".dmg" }; append ".dmg" if missing
DefaultFileName(c) ==
    LET n1 == IF c.FileName.name = <<>> /\ c.FileName.dir = <<>>
              THEN [dir |-> <<>>, name |-> c.Title \o <<".dmg">>]
              ELSE c.FileName
    IN  IF HasSuffix(n1.name, ".dmg") THEN n1
        ELSE [n1 EXCEPT !.name = @ \o <<".dmg">>]

\* if Format == "" { Format = UDZO }
DefaultFormat(c) == IF c.Format = "" THEN UDZO ELSE c.Format

IsCompressed(fmt) == fmt = UDZO \/ fmt = UDBZ

----------------------------------------------------------------------------
(* Call frames, calls, returns                                             *)

Frame(fn, pc) == [fn |-> fn, pc |-> pc, defers |-> <<>>, img |-> NoPath,
                  dir |-> NoDir, cb |-> "none", i |-> 1, size |-> 0]

Top == stack[Len(stack)]

At(fn, pc) == /\ mode = "run"
              /\ stack # <<>>
              /\ Top.fn = fn
              /\ Top.pc = pc

\* the stack with the top frame replaced
SetTop(f) == [stack EXCEPT ![Len(stack)] = f]

\* the function on whose behalf the top frame runs (tmpMount's caller)
Owner == IF Top.fn = "tmpMount" /\ Len(stack) > 1 THEN stack[Len(stack) - 1].fn
         ELSE Top.fn

Ev(op, ok) == [op |-> op, fn |-> Owner, ok |-> ok]

Log(op, ok) == trace' = Append(trace, Ev(op, ok))

Log2(op1, ok1, op2, ok2) == trace' = trace \o <<Ev(op1, ok1), Ev(op2, ok2)>>

DeferRec(op, img, dir) == [op |-> op, img |-> img, dir |-> dir]

\* `return v` of the top frame: its deferred calls run next
Return(f, v) == /\ stack' = SetTop(f)
                /\ mode' = "unwind"
                /\ ret' = v

\* the top frame moves to caller-side label pc and calls callee
Call(f, pc, callee) == /\ stack' = Append(SetTop([f EXCEPT !.pc = pc]), callee)
                       /\ mode' = "run"
                       /\ ret' = "none"

Goto(f, pc) == /\ stack' = SetTop([f EXCEPT !.pc = pc])
               /\ UNCHANGED <<mode, ret>>

----------------------------------------------------------------------------
(* The virtual-disk primitive (package hdiutil) and the mount table        *)

Range(s) == {s[k] : k \in DOMAIN s}

\* an image file: its format, the names in its volume root, the settings of
\* the .DS_Store in that root, the size it was created with (0: -srcfolder),
\* the source path it was created from when that is a content item, and the
\* zlib-level it was converted with ("" when none was passed)
ImageRec(fmt, role, root) == [fmt |-> fmt, role |-> role, root |-> root,
                              icon |-> FALSE, store |-> {}, sizeMB |-> 0,
                              title |-> <<>>, from |-> <<>>, level |-> ""]

\* the settings held by the .DS_Store of a staging directory
StoreOf(st) == IF <<".DS_Store">> \in DOMAIN st /\ st[<<".DS_Store">>].kind = "file"
               THEN st[<<".DS_Store">>].settings ELSE {}

\* hdiutil create -srcfolder dir [-size mb]: the image holds the directory's content
StagedImage(fmt, role, st, mb) ==
    [ImageRec(fmt, role, DOMAIN st) EXCEPT !.store = StoreOf(st), !.sizeMB = mb]

\* hdiutil convert: the volume of src in another format
ConvertedImage(src, fmt) ==
    [ImageRec(fmt, "final", src.root) EXCEPT !.store = src.store, !.from = src.from]

\* the file system with an image file written at path by hdiutil create or
\* convert, which the builds run with -volname config.Title
WriteImage(imgs, path, rec) ==
    [p \in DOMAIN imgs \cup {path} |->
        IF p = path THEN [rec EXCEPT !.title = cfg.Title] ELSE imgs[p]]

\* the file system without the file at path (os.Remove)
RemoveFile(imgs, path) == [p \in DOMAIN imgs \ {path} |-> imgs[p]]

\* os.Rename(from, to)
RenameFile(imgs, from, to) ==
    [p \in (DOMAIN imgs \ {from}) \cup {to} |-> IF p = to THEN imgs[from] ELSE imgs[p]]

\* a volume-root entry written through a mount of image path
AddToVolume(imgs, path, names) ==
    IF path \in DOMAIN imgs THEN [imgs EXCEPT ![path].root = @ \cup names] ELSE imgs

\* store.Write() through a mount of image path
WriteStore(imgs, path, settings) ==
    IF path \in DOMAIN imgs THEN [imgs EXCEPT ![path].store = settings] ELSE imgs

\* hdiutil.Attach(imagePath, mountPoint), when it succeeds
Attach(ms, img, mp) == ms \cup {[img |-> img, mp |-> mp]}

\* hdiutil convert reads an image file that exists and is not attached: an
\* attached read-write image is held by its volume ("Ensure the DMG is
\* properly detached before conversion")
Convertible(imgs, ms, img) == img \in DOMAIN imgs /\ ~\E m \in ms : m.img = img

LocTarget(mp)   == [t |-> "loc", p |-> NoPath, l |-> mp]
PathTarget(img) == [t |-> "path", p |-> img, l |-> NoDir]

\* hdiutil.Detach(target), when it succeeds: only a mount point names a volume
Detach(ms, target) == {m \in ms : ~(target.t = "loc" /\ m.mp = target.l)}

\* `hdiutil info`: per attached image an image-path line and a device line
InfoLines(ms) ==
    {[kind |-> "image-path", img |-> m.img, mp |-> m.mp] : m \in ms} \cup
    {[kind |-> "dev", img |-> m.img, mp |-> m.mp] : m \in ms}

\* q occurs in p as a run of consecutive chunks
IsSubSeq(q, p) ==
    Len(q) <= Len(p) /\ \E k \in 0..(Len(p) - Len(q)) : SubSeq(p, k + 1, k + Len(q)) = q

\* strings.Contains(line, dmgPath): only the image-path line prints image paths
LineHasImage(line, dmgPath) ==
    /\ line.kind = "image-path"
    /\ dmgPath.dir = <<>> \/ dmgPath.dir = line.img.dir
    /\ IsSubSeq(dmgPath.name, line.img.name)

\* strings.Contains(line, "/Volumes/")
LineHasVolumes(line) ==
    IF line.kind = "image-path" THEN "Volumes" \in Range(line.img.dir)
    ELSE line.mp.role = "Volumes"

\* parts[2] of strings.Fields(line)
Field3(line) == IF line.kind = "image-path" THEN PathTarget(line.img)
                ELSE LocTarget(line.mp)

\* the arguments of the secondary hdiutil.Detach calls of forceDetachDMG
ForceTargets(ms, dmgPath) ==
    {Field3(l) : l \in {x \in InfoLines(ms) : LineHasImage(x, dmgPath) /\ LineHasVolumes(x)}}

\* forceDetachDMG(dmgPath): infoOk is the outcome of `hdiutil info`, okSet the
\* secondary detaches that succeed; the function reports nothing to its caller
forceDetachDMG(ms, dmgPath, infoOk, okSet) ==
    IF ~infoOk THEN ms
    ELSE {m \in ms : \A t \in okSet \cap ForceTargets(ms, dmgPath) : m \in Detach({m}, t)}

----------------------------------------------------------------------------
(* tmpMount                                                                *)

\* defer os.RemoveAll(dir), registered on frame f
DeferRemoveAll(f, d) == Append(f.defers, DeferRec("RemoveAll", NoPath, d))

\* defer os.Remove(path), registered on frame f
DeferRemove(f, path) == Append(f.defers, DeferRec("Remove", path, NoDir))

\* tmpMount without the deferred detach
TmpMountDefers_NoDetach(f, img, mp) == f.defers

\* defer func() { hdiutil.Detach(ctx, mountPoint) ... }()
TmpMountDefers(f, img, mp) == Append(f.defers, DeferRec("Detach", img, mp))

\* a deferred closure that overwrote the result with the detach error
RetAfterDetach_Overwrite(r, detachOk) == IF detachOk THEN r ELSE "err"

\* the deferred closure assigns no result: tmpMount returns what process returned
RetAfterDetach(r, detachOk) == r

\* the name an item is staged under: filepath.Base(item.Path)
DestName(item) == Base(item.Path)

\* a layout-metadata file without the item positions
StoreSettings_NoPositions(c) ==
    {<<s, <<>>>> : s \in {"iconSize", "window", "labelSize", "labelBottom", "bgDefault"}}

\* the settings every layout-metadata file is written with: SetIconSize,
\* SetWindow, SetLabelSize, SetLabelPlaceToBottom, SetBgToDefault and one
\* SetIconPos per content item
StoreSettings(c) ==
    {<<s, <<>>>> : s \in {"iconSize", "window", "labelSize", "labelBottom", "bgDefault"}} \cup
    {<<"pos", DestName(c.Contents[k])>> : k \in DOMAIN c.Contents}

\* what store.Write leaves on the mounted volume: the callback's store has
\* SetBackgroundImage applied when a background is configured
CbStore(c) == StoreSettings(c) \cup (IF c.Background THEN {<<"background", <<>>>>} ELSE {})

\* a callback that copies a background whether or not one is configured
CbSteps_AlwaysBackground(kind, c) ==
    CASE kind = "compressed" ->
           (IF c.Icon THEN <<"setDMGIcon">> ELSE <<>>) \o <<"background", "store">>
      [] kind = "CreateDMG" ->
           (IF c.Icon THEN <<"setDMGIcon">> ELSE <<>>) \o
           (IF c.Background THEN <<"store">> ELSE <<>>)
      [] kind = "bash" ->
           <<"symlink">> \o
           (IF c.Background THEN <<"background">> ELSE <<>>) \o
           (IF c.Icon THEN <<"setDMGIcon">> ELSE <<>>) \o
           <<"store">>
      [] OTHER -> <<>>

\* the steps of the customization callback handed to tmpMount
CbSteps(kind, c) ==
    CASE kind = "compressed" ->
           (IF c.Icon THEN <<"setDMGIcon">> ELSE <<>>) \o
           (IF c.Background THEN <<"background", "store">> ELSE <<>>)
      [] kind = "CreateDMG" ->
           (IF c.Icon THEN <<"setDMGIcon">> ELSE <<>>) \o
           (IF c.Background THEN <<"store">> ELSE <<>>)
      [] kind = "bash" ->
           <<"symlink">> \o
           (IF c.Background THEN <<"background">> ELSE <<>>) \o
           (IF c.Icon THEN <<"setDMGIcon">> ELSE <<>>) \o
           <<"store">>
      [] OTHER -> <<>>

\* what a successful callback step leaves at the root of the mounted volume
StepEntries(step) ==
    CASE step = "setDMGIcon" -> {<<".VolumeIcon.icns">>}
      [] step = "background" -> {<<".background">>}
      [] step = "store"      -> {<<".DS_Store">>}
      [] step = "symlink"    -> {<<"Applications">>}
      [] OTHER -> {}

tmpMount_MkdirTemp ==
    /\ At("tmpMount", "start")
    /\ \E ok \in BOOLEAN :
         LET d == [role |-> "mount", n |-> nextTmp] IN
         IF ok
         THEN /\ dirs' = dirs \cup {d}
              /\ nextTmp' = nextTmp + 1
              /\ Goto([Top EXCEPT !.dir = d, !.defers = DeferRemoveAll(Top, d)], "attach")
              /\ Log("tmpMount.MkdirTemp", TRUE)
         ELSE /\ Return(Top, "err")
              /\ Log("tmpMount.MkdirTemp", FALSE)
              /\ UNCHANGED <<dirs, nextTmp>>
    /\ UNCHANGED <<other, entry, cfg, orig, result, images, staged, mounts, stageDir>>

tmpMount_Attach ==
    /\ At("tmpMount", "attach")
    /\ \E ok \in BOOLEAN :
         IF ok /\ Top.img \in DOMAIN images
         THEN /\ mounts' = Attach(mounts, Top.img, Top.dir)
              /\ Goto([Top EXCEPT !.defers = TmpMountDefers(Top, Top.img, Top.dir),
                                  !.i = 1], "process")
              /\ Log("Attach", TRUE)
         ELSE /\ Return(Top, "err")
              /\ Log("Attach", FALSE)
              /\ UNCHANGED mounts
    /\ UNCHANGED <<other, entry, cfg, orig, result, images, dirs, staged, stageDir, nextTmp>>

\* one step of process(dmgPath, mountPoint): it succeeds or returns its error
process_Step ==
    /\ At("tmpMount", "process")
    /\ Top.i <= Len(CbSteps(Top.cb, cfg))
    /\ LET step == CbSteps(Top.cb, cfg)[Top.i] IN
       \E ok \in BOOLEAN :
         IF ok
         THEN /\ images' = LET v == AddToVolume(images, Top.img, StepEntries(step)) IN
                           IF step = "store" THEN WriteStore(v, Top.img, CbStore(cfg))
                           ELSE v
              /\ Goto([Top EXCEPT !.i = @ + 1], "process")
              /\ Log(step, TRUE)
         ELSE /\ Return(Top, "err")
              /\ Log2(step, FALSE, "process", FALSE)
              /\ UNCHANGED images
    /\ UNCHANGED <<other, entry, cfg, orig, result, dirs, staged, mounts, stageDir, nextTmp>>

\* process returns nil
process_Return ==
    /\ At("tmpMount", "process")
    /\ Top.i > Len(CbSteps(Top.cb, cfg))
    /\ Return(Top, "ok")
    /\ Log("process", TRUE)
    /\ UNCHANGED <<other, entry, cfg, orig, result, images, dirs, staged, mounts, stageDir,
                   nextTmp>>

\* process panics (an unexpected fault inside the callback)
process_Panic ==
    /\ At("tmpMount", "process")
    /\ Return(Top, "panic")
    /\ Log("process.panic", FALSE)
    /\ UNCHANGED <<other, entry, cfg, orig, result, images, dirs, staged, mounts, stageDir,
                   nextTmp>>

----------------------------------------------------------------------------
(* Deferred calls and the return to the caller                             *)

Unwinding == mode = "unwind" /\ stack # <<>>

NextDefer == Top.defers[Len(Top.defers)]

PopDefer == SetTop([Top EXCEPT !.defers = SubSeq(@, 1, Len(@) - 1)])

\* a closure that tries the forced detach twice
DetachFailureOps_Retry == <<"Detach", "forceDetachDMG", "forceDetachDMG">>

\* the calls of the deferred closure when the primary detach fails:
\* hdiutil.Detach, then forceDetachDMG
DetachFailureOps == <<"Detach", "forceDetachDMG">>

\* the deferred closure of tmpMount: primary detach, forced detach if it fails
tmpMount_DeferredDetach ==
    /\ Unwinding
    /\ Top.defers # <<>>
    /\ NextDefer.op = "Detach"
    /\ \E ok \in BOOLEAN :
         IF ok
         THEN /\ mounts' = Detach(mounts, LocTarget(NextDefer.dir))
              /\ Log("Detach", TRUE)
              /\ ret' = RetAfterDetach(ret, TRUE)
         ELSE \E infoOk \in BOOLEAN :
              \E okSet \in SUBSET ForceTargets(mounts, NextDefer.img) :
                /\ mounts' = forceDetachDMG(mounts, NextDefer.img, infoOk, okSet)
                /\ trace' = trace \o [k \in DOMAIN DetachFailureOps |->
                                          Ev(DetachFailureOps[k], k > 1)]
                /\ ret' = RetAfterDetach(ret, FALSE)
    /\ stack' = PopDefer
    /\ UNCHANGED <<other, entry, cfg, orig, mode, result, images, dirs, staged, stageDir,
                   nextTmp>>

\* a volume still attached below directory d
MountedAt(d) == {m \in mounts : m.mp = d}

\* os.RemoveAll(d) over a directory that still carries a mounted volume: the
\* entries of a writable volume are deleted, the busy mount point stays
WipeMounted(imgs, d) ==
    [p \in DOMAIN imgs |->
        IF imgs[p].fmt = UDRW /\ \E m \in MountedAt(d) : m.img = p
        THEN [imgs[p] EXCEPT !.root = {}, !.store = {}] ELSE imgs[p]]

\* deferred os.RemoveAll(dir)
Deferred_RemoveAll ==
    /\ Unwinding
    /\ Top.defers # <<>>
    /\ NextDefer.op = "RemoveAll"
    /\ LET d == NextDefer.dir IN
       IF MountedAt(d) # {}
       THEN /\ images' = WipeMounted(images, d)
            /\ Log("RemoveAll", FALSE)
            /\ UNCHANGED <<dirs, staged>>
       ELSE /\ dirs' = dirs \ {d}
            /\ staged' = IF d = stageDir THEN <<>> ELSE staged
            /\ Log("RemoveAll", TRUE)
            /\ UNCHANGED images
    /\ stack' = PopDefer
    /\ UNCHANGED <<other, entry, cfg, orig, mode, ret, result, mounts, stageDir, nextTmp>>

\* deferred os.Remove(path)
Deferred_Remove ==
    /\ Unwinding
    /\ Top.defers # <<>>
    /\ NextDefer.op = "Remove"
    /\ images' = RemoveFile(images, NextDefer.img)
    /\ Log("Remove", NextDefer.img \in DOMAIN images)
    /\ stack' = PopDefer
    /\ UNCHANGED <<other, entry, cfg, orig, mode, ret, result, dirs, staged, mounts, stageDir,
                   nextTmp>>

\* all deferred calls of the top frame have run: control goes back to the caller,
\* or the panic goes on unwinding the caller
PopFrame ==
    /\ Unwinding
    /\ Top.defers = <<>>
    /\ stack' = SubSeq(stack, 1, Len(stack) - 1)
    /\ trace' = Append(trace, [op |-> IF ret = "panic" THEN "unwound" ELSE "return",
                               fn |-> Top.fn, ok |-> ret = "ok"])
    /\ IF Len(stack) = 1
       THEN /\ mode' = "done"
            /\ result' = ret
       ELSE /\ mode' = IF ret = "panic" THEN "unwind" ELSE "run"
            /\ UNCHANGED result
    /\ UNCHANGED <<other, entry, cfg, orig, ret, images, dirs, staged, mounts, stageDir,
                   nextTmp>>

----------------------------------------------------------------------------
(* Content Stager                                                          *)
(* An item is [Type, Path, present]: Path is a sequence of components and  *)
(* present tells whether the source path exists on disk.                   *)


\* the bytes a file holds: those source path `of` held, `bytes` of them
Content(p, b) == [of |-> p, bytes |-> b]

\* what a file holds after os.Create truncated it and nothing was written
NoContent == Content(<<>>, 0)

\* the inode of an entry that shares it with no source
NoIno == <<>>

\* a staged entry.  kind: "file", "hardlink", "symlink" or "dir".  ino: the
\* source path whose inode a hard link shares, or the target of a symbolic
\* link; NoIno for an entry with an inode of its own.  data: what the file
\* (for a link: the file behind it) holds.  bytes: the size Lstat reports, for
\* a directory the bytes of the files inside.  inside: how the files inside a
\* directory entry were made ("copy", "hardlink"), "none" for other entries.
\* settings: what a layout-metadata file records, empty for other entries.
StagedEntry(kind, ino, data, bytes, inside) ==
    [kind |-> kind, ino |-> ino, data |-> data, bytes |-> bytes, inside |-> inside,
     settings |-> {}]

\* the staging directory with entry n set to e
Put(st, n, e) == [x \in DOMAIN st \cup {n} |-> IF x = n THEN e ELSE st[x]]

Failed(st) == [ok |-> FALSE, st |-> st, log |-> <<>>]
Done(st)   == [ok |-> TRUE, st |-> st, log |-> <<>>]

\* the staged entries through which the inode of source path p is reachable
Aliases(st, p) == {x \in DOMAIN st : st[x].ino = p}

\* what the source file of item holds now: its own bytes, unless a write
\* through a staged link to it has replaced them
SrcContent(st, item) ==
    IF Aliases(st, item.Path) = {} THEN Content(item.Path, item.bytes)
    ELSE st[CHOOSE x \in Aliases(st, item.Path) : TRUE].data

\* os.Create(dst) and io.CopyBuffer on an existing entry n: the file behind n
\* is truncated, then filled with what the source holds at that moment, which
\* is nothing when n is a link to the source itself; every entry on the same
\* inode sees the new bytes
WriteThrough(st, n, item) ==
    LET e == st[n]
        c == IF e.ino = item.Path THEN NoContent ELSE SrcContent(st, item)
    IN  [x \in DOMAIN st |->
            IF x = n \/ (e.ino # NoIno /\ st[x].ino = e.ino)
            THEN [st[x] EXCEPT !.data = c,
                               !.bytes = IF st[x].kind = "symlink" THEN @ ELSE c.bytes]
            ELSE st[x]]

\* os.Symlink(item.Path, dst): fails when dst exists; the target is not looked at
SymlinkOutcomes(st, item) ==
    {Failed(st)} \cup
    (IF DestName(item) \notin DOMAIN st
     THEN {Done(Put(st, DestName(item),
                    StagedEntry("symlink", item.Path, SrcContent(st, item), item.len, "none")))}
     ELSE {})

\* copyFile(item.Path, dst): os.Open needs the source, os.Create truncates an
\* existing file (also through a link) and fails on a directory
CopyFileOutcomes(st, item) ==
    LET n == DestName(item) IN
    {Failed(st)} \cup
    (IF item.present /\ item.Type # Dir /\ (n \in DOMAIN st => st[n].kind # "dir")
     THEN {Done(IF n \in DOMAIN st THEN WriteThrough(st, n, item)
                ELSE Put(st, n, StagedEntry("file", NoIno, SrcContent(st, item),
                                            SrcContent(st, item).bytes, "none")))}
     ELSE {})

\* a hard-link staging that gives up when os.Link fails
LinkOrCopyOutcomes_NoFallback(st, item) ==
    {[Failed(st) EXCEPT !.log = <<<<"os.Link", FALSE>>>>]} \cup
    (IF item.present /\ item.Type # Dir /\ DestName(item) \notin DOMAIN st
     THEN {[Done(Put(st, DestName(item),
                     StagedEntry("hardlink", item.Path, SrcContent(st, item),
                                 SrcContent(st, item).bytes, "none")))
              EXCEPT !.log = <<<<"os.Link", TRUE>>>>]}
     ELSE {})

\* os.Link(item.Path, dst), falling back to copyFile when the link fails
LinkOrCopyOutcomes(st, item) ==
    (IF item.present /\ item.Type # Dir /\ DestName(item) \notin DOMAIN st
     THEN {[Done(Put(st, DestName(item),
                     StagedEntry("hardlink", item.Path, SrcContent(st, item),
                                 SrcContent(st, item).bytes, "none")))
              EXCEPT !.log = <<<<"os.Link", TRUE>>>>]}
     ELSE {})
    \cup {[o EXCEPT !.log = <<<<"os.Link", FALSE>>, <<"copyFile", o.ok>>>>] :
            o \in CopyFileOutcomes(st, item)}

\* copyDir / smartCopyDir(item.Path, dst): os.Stat needs the source,
\* os.MkdirAll fails on an existing file
CopyDirOutcomes(st, item) ==
    LET n == DestName(item) IN
    {Failed(st)} \cup
    (IF item.present /\ item.Type # File
        /\ (n \in DOMAIN st => st[n].kind \in {"dir", "symlink"})
     THEN {Done(IF n \in DOMAIN st THEN st
                ELSE Put(st, n, StagedEntry("dir", NoIno, Content(item.Path, item.bytes),
                                            item.bytes, "copy")))}
     ELSE {})

\* copyDirWithHardLinks(item.Path, dst), falling back to copyDir of the whole
\* directory when it returns an error
LinkDirOutcomes(st, item) ==
    LET n == DestName(item) IN
    (IF item.present /\ item.Type # File /\ n \notin DOMAIN st
     THEN {Done(Put(st, n, StagedEntry("dir", NoIno, Content(item.Path, item.bytes),
                                       item.bytes, "hardlink")))}
     ELSE {})
    \cup CopyDirOutcomes(st, item)

\* a stager that stages every Link item as nothing
SetupOutcomes_SkipLinks(c, st, item) ==
    CASE item.Type = File -> CopyFileOutcomes(st, item)
      [] item.Type = Dir  -> CopyDirOutcomes(st, item)
      [] OTHER            -> {Done(st)}

\* the switch of setupSourceDirectory
SetupOutcomes(c, st, item) ==
    CASE item.Type = File -> IF c.UseHardLinks THEN LinkOrCopyOutcomes(st, item)
                             ELSE CopyFileOutcomes(st, item)
      [] item.Type = Dir  -> IF c.UseHardLinks THEN LinkDirOutcomes(st, item)
                             ELSE CopyDirOutcomes(st, item)
      [] item.Type = Link -> SymlinkOutcomes(st, item)
      [] OTHER            -> {Done(st)}

\* the switch of createDMGWithSafeHardLinks
SafeOutcomes(c, st, item) ==
    CASE item.Type = File -> LinkOrCopyOutcomes(st, item)
      [] item.Type = Dir  -> CopyDirOutcomes(st, item)
      [] item.Type = Link -> SymlinkOutcomes(st, item)
      [] OTHER            -> {Done(st)}

\* the switch of createSymbolicLinks
SymlinkDirectOutcomes(c, st, item) ==
    CASE item.Type \in {File, Dir, Link} -> SymlinkOutcomes(st, item)
      [] OTHER -> {Done(st)}

\* an error handed up as it came from copyFile, which names the path of the
\* call that failed (source, destination or its directory)
Wrapped_Bare(S) == S

\* return fmt.Errorf("failed to ... %s: %w", item.Path, err)
Wrapped(S) ==
    {IF o.ok THEN o ELSE [o EXCEPT !.log = Append(@, <<"Errorf(item.Path)", TRUE>>)] :
       o \in S}

\* a background that is linked into the staging area
BackgroundEntry_Linked(c) ==
    StagedEntry("dir", NoIno, Content(<<<<"background">>>>, c.BackgroundBytes),
                c.BackgroundBytes, "hardlink")

\* .background, holding background.png as copyFile wrote it
BackgroundEntry(c) ==
    StagedEntry("dir", NoIno, Content(<<<<"background">>>>, c.BackgroundBytes),
                c.BackgroundBytes, "copy")

\* the staged entry n is a symbolic link to a source path that exists
LinkToPresent(c, st, n) ==
    /\ n \in DOMAIN st
    /\ st[n].kind = "symlink"
    /\ \E k \in DOMAIN c.Contents :
           c.Contents[k].Path = st[n].ino /\ c.Contents[k].present

\* a .background that is a symbolic link, after copyFile wrote background.png
\* into the directory behind it
BackgroundThrough(c, e) ==
    [e EXCEPT !.data = Content(<<<<"background">>>>, c.BackgroundBytes)]

\* os.MkdirAll(.background) and copyFile(config.Background, .background/background.png):
\* os.MkdirAll accepts an existing directory, also behind a symbolic link, and
\* os.Create then makes the file in the directory the link points at
BackgroundOutcomes(c, st) ==
    {Failed(st)} \cup
    (IF <<".background">> \in DOMAIN st => st[<<".background">>].kind = "dir"
     THEN {Done(Put(st, <<".background">>, BackgroundEntry(c)))} ELSE {}) \cup
    (IF LinkToPresent(c, st, <<".background">>)
     THEN {Done(Put(st, <<".background">>, BackgroundThrough(c, st[<<".background">>])))}
     ELSE {})

\* the .DS_Store file as dsstore writes it: data names the settings it holds
StoreEntry(c, settings) ==
    [StagedEntry("file", NoIno, Content(<<>>, c.StoreBytes), c.StoreBytes, "none")
        EXCEPT !.settings = settings]

\* store.Write(<staging dir>/.DS_Store)
StoreOutcomes(c, st) ==
    {Failed(st)} \cup
    (IF <<".DS_Store">> \in DOMAIN st => st[<<".DS_Store">>].kind # "dir"
     THEN {Done(Put(st, <<".DS_Store">>, StoreEntry(c, StoreSettings(c))))}
     ELSE {})

\* the per-item switch of the staging function fn
ItemOutcomes(fn, c, st, item) ==
    CASE fn = "setupSourceDirectory"       -> Wrapped(SetupOutcomes(c, st, item))
      [] fn = "createDMGWithSafeHardLinks" -> Wrapped(SafeOutcomes(c, st, item))
      [] fn = "createSymbolicLinks"        -> Wrapped(SymlinkDirectOutcomes(c, st, item))

\* one round of `for _, item := range config.Contents` in function fn
StageLoop(fn, next) ==
    /\ At(fn, "stage")
    /\ IF Top.i > Len(cfg.Contents)
       THEN /\ Goto([Top EXCEPT !.i = 1], next)
            /\ UNCHANGED <<staged, trace>>
       ELSE \E o \in ItemOutcomes(fn, cfg, staged, cfg.Contents[Top.i]) :
              /\ trace' = trace \o [k \in 1..Len(o.log) |-> Ev(o.log[k][1], o.log[k][2])]
                                 \o <<Ev("stage", o.ok)>>
              /\ IF o.ok
                 THEN /\ staged' = o.st
                      /\ Goto([Top EXCEPT !.i = @ + 1], "stage")
                 ELSE /\ Return(Top, "err")
                      /\ UNCHANGED staged
    /\ UNCHANGED <<other, entry, cfg, orig, result, images, dirs, mounts, stageDir, nextTmp>>

\* the background copy that ends a staging function
StageBackground(fn, next) ==
    /\ At(fn, "bg")
    /\ IF ~cfg.Background
       THEN /\ (IF next = "return" THEN Return(Top, "ok") ELSE Goto(Top, next))
            /\ UNCHANGED <<staged, trace>>
       ELSE \E o \in BackgroundOutcomes(cfg, staged) :
              IF o.ok
              THEN /\ staged' = o.st
                   /\ (IF next = "return" THEN Return(Top, "ok") ELSE Goto(Top, next))
                   /\ Log("stage.background", TRUE)
              ELSE /\ Return(Top, "err")
                   /\ Log("stage.background", FALSE)
                   /\ UNCHANGED staged
    /\ UNCHANGED <<other, entry, cfg, orig, result, images, dirs, mounts, stageDir, nextTmp>>

\* the .app directory items, in order
AppItems(c) == SelectSeq(c.Contents, LAMBDA it : it.Type = Dir /\ HasSuffix(Base(it.Path), ".app"))

\* setupSourceDirectory, first loop: optimizeAppBundle on every .app directory;
\* its error is only logged
setupSourceDirectory_Optimize ==
    /\ At("setupSourceDirectory", "start")
    /\ Goto([Top EXCEPT !.i = 1], "stage")
    /\ trace' = trace \o
          (IF cfg.OptimizeAppSize
           THEN [k \in 1..Len(AppItems(cfg)) |-> Ev("optimizeAppBundle", TRUE)]
           ELSE <<>>)
    /\ UNCHANGED <<other, entry, cfg, orig, result, images, dirs, staged, mounts, stageDir,
                   nextTmp>>

setupSourceDirectory_StageItem == StageLoop("setupSourceDirectory", "bg")

setupSourceDirectory_Background == StageBackground("setupSourceDirectory", "return")

createSymbolicLinks_StageItem == StageLoop("createSymbolicLinks", "bg")

createSymbolicLinks_Background == StageBackground("createSymbolicLinks", "return")

----------------------------------------------------------------------------
(* createCompressedDMG, createCompressedDMGDirect, createCompressedDMGWithSize *)

CompressedFns == {"createCompressedDMG", "createCompressedDMGDirect",
                  "createCompressedDMGWithSize"}

PipelineUnchanged == UNCHANGED <<other, entry, cfg, orig, result, dirs, staged, stageDir, nextTmp>>

\* a build that carries on after a failed mount
AbortOnMountError_Ignored(r) == FALSE

\* if err != nil { return err } after tmpMount
AbortOnMountError(r) == r = "err"

\* defer os.Remove(tempDMG), then hdiutil.Create[WithSize] of the writable image
Compressed_Create(fn) ==
    /\ At(fn, "start")
    /\ LET tempDMG == TempName(cfg.FileName)
           f == [Top EXCEPT !.img = tempDMG, !.defers = DeferRemove(Top, tempDMG)] IN
       \E ok \in BOOLEAN :
         IF ok
         THEN /\ images' = WriteImage(images, tempDMG,
                                      StagedImage(UDRW, "inter", staged, Top.size))
              /\ Goto(f, "mount")
              /\ Log("Create", TRUE)
         ELSE /\ Return(f, "err")
              /\ Log("Create", FALSE)
              /\ UNCHANGED images
    /\ UNCHANGED mounts
    /\ PipelineUnchanged

\* if config.Icon != "" || config.Background != "" { err := tmpMount(tempDMG, ...) }
Compressed_Mount(fn) ==
    /\ At(fn, "mount")
    /\ IF cfg.Icon \/ cfg.Background
       THEN Call(Top, "force", [Frame("tmpMount", "start") EXCEPT !.img = Top.img,
                                                               !.cb = "compressed"])
       ELSE /\ stack' = SetTop([Top EXCEPT !.pc = "force"])
            /\ ret' = "none"
            /\ UNCHANGED mode
    /\ UNCHANGED <<images, mounts, trace>>
    /\ PipelineUnchanged

\* the error check after tmpMount, then forceDetachDMG(ctx, tempDMG)
Compressed_Force(fn) ==
    /\ At(fn, "force")
    /\ IF AbortOnMountError(ret)
       THEN /\ Return(Top, "err")
            /\ UNCHANGED <<mounts, trace>>
       ELSE \E infoOk \in BOOLEAN :
            \E okSet \in SUBSET ForceTargets(mounts, Top.img) :
              /\ mounts' = forceDetachDMG(mounts, Top.img, infoOk, okSet)
              /\ Goto(Top, "convert")
              /\ Log("forceDetachDMG", TRUE)
    /\ UNCHANGED images
    /\ PipelineUnchanged

\* hdiutil convert tempDMG -format config.Format -o config.FileName
Compressed_Convert(fn) ==
    /\ At(fn, "convert")
    /\ \E ok \in BOOLEAN :
         IF ok /\ Convertible(images, mounts, Top.img)
         THEN /\ images' = WriteImage(images, cfg.FileName,
                                      [ConvertedImage(images[Top.img], cfg.Format)
                                          EXCEPT !.level = cfg.CompressionLevel])
              /\ Return(Top, "ok")
              /\ Log("convert", TRUE)
         ELSE /\ Return(Top, "err")
              /\ Log("convert", FALSE)
              /\ UNCHANGED images
    /\ UNCHANGED mounts
    /\ PipelineUnchanged

createCompressedDMG_Create  == Compressed_Create("createCompressedDMG")
createCompressedDMG_Mount   == Compressed_Mount("createCompressedDMG")
createCompressedDMG_Force   == Compressed_Force("createCompressedDMG")
createCompressedDMG_Convert == Compressed_Convert("createCompressedDMG")

createCompressedDMGDirect_Create  == Compressed_Create("createCompressedDMGDirect")
createCompressedDMGDirect_Mount   == Compressed_Mount("createCompressedDMGDirect")
createCompressedDMGDirect_Force   == Compressed_Force("createCompressedDMGDirect")
createCompressedDMGDirect_Convert == Compressed_Convert("createCompressedDMGDirect")

createCompressedDMGWithSize_Create  == Compressed_Create("createCompressedDMGWithSize")
createCompressedDMGWithSize_Mount   == Compressed_Mount("createCompressedDMGWithSize")
createCompressedDMGWithSize_Force   == Compressed_Force("createCompressedDMGWithSize")
createCompressedDMGWithSize_Convert == Compressed_Convert("createCompressedDMGWithSize")

----------------------------------------------------------------------------
(* setFileIcon                                                             *)

setFileIcon_MkdirTemp ==
    /\ At("setFileIcon", "start")
    /\ \E ok \in BOOLEAN :
         LET d == [role |-> "scratch", n |-> nextTmp] IN
         IF ok
         THEN /\ dirs' = dirs \cup {d}
              /\ nextTmp' = nextTmp + 1
              /\ Goto([Top EXCEPT !.dir = d, !.defers = DeferRemoveAll(Top, d)], "run")
              /\ Log("MkdirTemp", TRUE)
         ELSE /\ Return(Top, "err")
              /\ Log("MkdirTemp", FALSE)
              /\ UNCHANGED <<dirs, nextTmp>>
    /\ UNCHANGED <<other, entry, cfg, orig, result, images, staged, mounts, stageDir>>

\* copyFile, sips, DeRez, os.WriteFile, Rez -append, SetFile -a C
setFileIcon_Run ==
    /\ At("setFileIcon", "run")
    /\ \E ok \in BOOLEAN :
         IF ok /\ Top.img \in DOMAIN images
         THEN /\ images' = [images EXCEPT ![Top.img].icon = TRUE]
              /\ Return(Top, "ok")
              /\ Log("setFileIcon", TRUE)
         ELSE /\ Return(Top, "err")
              /\ Log("setFileIcon", FALSE)
              /\ UNCHANGED images
    /\ UNCHANGED mounts
    /\ PipelineUnchanged

SetFileIconFrame == [Frame("setFileIcon", "start") EXCEPT !.img = cfg.FileName]

\* if config.Icon != "" { setFileIcon(config.FileName, config.Icon) }
FileIconStep(fn) ==
    /\ At(fn, "fileicon")
    /\ IF cfg.Icon THEN Call(Top, "end", SetFileIconFrame)
       ELSE Return(Top, "ok")
    /\ UNCHANGED <<images, mounts, trace>>
    /\ PipelineUnchanged

\* return nil, whatever setFileIcon returned
EndStep(fn) ==
    /\ At(fn, "end")
    /\ Return(Top, "ok")
    /\ UNCHANGED <<images, mounts, trace>>
    /\ PipelineUnchanged

----------------------------------------------------------------------------
(* The uncompressed branch shared by CreateDMG and CreateDMGDirect         *)

CompressedFnOf(fn) == IF fn = "CreateDMGDirect" THEN "createCompressedDMGDirect"
                      ELSE "createCompressedDMG"

\* compressed format: createCompressedDMG*; else hdiutil.Create at the output path
Std_Create(fn, next) ==
    /\ At(fn, "create")
    /\ IF IsCompressed(cfg.Format)
       THEN /\ Call(Top, "afterCompressed", Frame(CompressedFnOf(fn), "start"))
            /\ UNCHANGED <<images, trace>>
       ELSE \E ok \in BOOLEAN :
              IF ok
              THEN /\ images' = WriteImage(images, cfg.FileName,
                                   StagedImage(cfg.Format,
                                            IF cfg.Format = UDRW THEN "inter" ELSE "final",
                                            staged, 0))
                   /\ Goto(Top, IF cfg.Format = UDRW THEN "rename" ELSE next)
                   /\ Log("Create", TRUE)
              ELSE /\ Return(Top, "err")
                   /\ Log("Create", FALSE)
                   /\ UNCHANGED images
    /\ UNCHANGED mounts
    /\ PipelineUnchanged

Std_AfterCompressed(fn, next) ==
    /\ At(fn, "afterCompressed")
    /\ IF ret = "err" THEN Return(Top, "err") ELSE Goto(Top, next)
    /\ UNCHANGED <<images, mounts, trace>>
    /\ PipelineUnchanged

\* os.Rename(config.FileName, tempFileName); defer os.Remove(tempFileName)
Std_Rename(fn) ==
    /\ At(fn, "rename")
    /\ LET tempFileName == TempName(cfg.FileName) IN
       \E ok \in BOOLEAN :
         IF ok
         THEN /\ images' = RenameFile(images, cfg.FileName, tempFileName)
              /\ Goto([Top EXCEPT !.img = tempFileName,
                                  !.defers = DeferRemove(Top, tempFileName)], "convert")
              /\ Log("Rename", TRUE)
         ELSE /\ Return(Top, "err")
              /\ Log("Rename", FALSE)
              /\ UNCHANGED images
    /\ UNCHANGED mounts
    /\ PipelineUnchanged

\* hdiutil.Convert(tempFileName, UDRO, config.FileName)
Std_Convert(fn, next) ==
    /\ At(fn, "convert")
    /\ \E ok \in BOOLEAN :
         IF ok /\ Convertible(images, mounts, Top.img)
         THEN /\ images' = WriteImage(images, cfg.FileName,
                                      ConvertedImage(images[Top.img], UDRO))
              /\ Goto(Top, next)
              /\ Log("convert", TRUE)
         ELSE /\ Return(Top, "err")
              /\ Log("convert", FALSE)
              /\ UNCHANGED images
    /\ UNCHANGED mounts
    /\ PipelineUnchanged

----------------------------------------------------------------------------
(* CreateDMG                                                               *)

TmpMountFrame(img, cb) == [Frame("tmpMount", "start") EXCEPT !.img = img, !.cb = cb]

\* UseHardLinks: hand over to createDMGWithSafeHardLinks; else
\* os.MkdirAll(sourceDir) and setupSourceDirectory(config, sourceDir)
CreateDMG_Start ==
    /\ At("CreateDMG", "start")
    /\ IF cfg.UseHardLinks
       THEN /\ Call(Top, "retSafe", Frame("createDMGWithSafeHardLinks", "start"))
            /\ UNCHANGED <<dirs, stageDir, trace>>
       ELSE \E ok \in BOOLEAN :
              IF ok
              THEN /\ dirs' = dirs \cup {Top.dir}
                   /\ stageDir' = Top.dir
                   /\ Call(Top, "afterStage", Frame("setupSourceDirectory", "start"))
                   /\ Log("MkdirAll", TRUE)
              ELSE /\ Return(Top, "err")
                   /\ Log("MkdirAll", FALSE)
                   /\ UNCHANGED <<dirs, stageDir>>
    /\ UNCHANGED <<other, entry, cfg, orig, result, images, staged, mounts, nextTmp>>

\* return createDMGWithSafeHardLinks(config, sourceDir)
CreateDMG_ReturnSafe ==
    /\ At("CreateDMG", "retSafe")
    /\ Return(Top, ret)
    /\ UNCHANGED <<images, mounts, trace>>
    /\ PipelineUnchanged

\* the error check after staging, store.Write(.DS_Store), then the defaults of
\* FileName and Format
WriteStoreStep(fn, c) ==
    /\ At(fn, "afterStage")
    /\ IF ret = "err"
       THEN /\ Return(Top, "err")
            /\ UNCHANGED <<cfg, staged, trace>>
       ELSE \E o \in StoreOutcomes(cfg, staged) :
              IF o.ok
              THEN /\ staged' = o.st
                   /\ cfg' = c
                   /\ Goto(Top, "create")
                   /\ Log("store.Write", TRUE)
              ELSE /\ Return(Top, "err")
                   /\ Log("store.Write", FALSE)
                   /\ UNCHANGED <<cfg, staged>>
    /\ UNCHANGED <<other, entry, orig, result, images, dirs, mounts, stageDir, nextTmp>>

WithDefaults(c) == [c EXCEPT !.FileName = DefaultFileName(c), !.Format = DefaultFormat(c)]

CreateDMG_WriteStore == WriteStoreStep("CreateDMG", WithDefaults(cfg))

CreateDMG_Create == Std_Create("CreateDMG", "mount")

CreateDMG_AfterCompressed == Std_AfterCompressed("CreateDMG", "mount")

CreateDMG_Rename == Std_Rename("CreateDMG")

CreateDMG_Convert == Std_Convert("CreateDMG", "mount")

\* err = tmpMount(config.FileName, ...): the result is assigned and never read
CreateDMG_Mount ==
    /\ At("CreateDMG", "mount")
    /\ IF cfg.Icon \/ cfg.Background
       THEN Call(Top, "fileicon", TmpMountFrame(cfg.FileName, "CreateDMG"))
       ELSE Goto(Top, "fileicon")
    /\ UNCHANGED <<images, mounts, trace>>
    /\ PipelineUnchanged

CreateDMG_FileIcon == FileIconStep("CreateDMG")

CreateDMG_End == EndStep("CreateDMG")

----------------------------------------------------------------------------
(* CreateDMGDirect                                                         *)

\* the defaults, os.MkdirTemp, defer os.RemoveAll(tempDir), createSymbolicLinks
CreateDMGDirect_Start ==
    /\ At("CreateDMGDirect", "start")
    /\ cfg' = WithDefaults(cfg)
    /\ \E ok \in BOOLEAN :
         LET d == [role |-> "direct", n |-> nextTmp] IN
         IF ok
         THEN /\ dirs' = dirs \cup {d}
              /\ nextTmp' = nextTmp + 1
              /\ stageDir' = d
              /\ Call([Top EXCEPT !.dir = d, !.defers = DeferRemoveAll(Top, d)],
                      "afterStage", Frame("createSymbolicLinks", "stage"))
              /\ Log("MkdirTemp", TRUE)
         ELSE /\ Return(Top, "err")
              /\ Log("MkdirTemp", FALSE)
              /\ UNCHANGED <<dirs, nextTmp, stageDir>>
    /\ UNCHANGED <<other, entry, orig, result, images, staged, mounts>>

CreateDMGDirect_WriteStore == WriteStoreStep("CreateDMGDirect", cfg)

CreateDMGDirect_Create == Std_Create("CreateDMGDirect", "fileicon")

CreateDMGDirect_AfterCompressed == Std_AfterCompressed("CreateDMGDirect", "fileicon")

CreateDMGDirect_Rename == Std_Rename("CreateDMGDirect")

CreateDMGDirect_Convert == Std_Convert("CreateDMGDirect", "fileicon")

CreateDMGDirect_FileIcon == FileIconStep("CreateDMGDirect")

CreateDMGDirect_End == EndStep("CreateDMGDirect")

----------------------------------------------------------------------------
(* CreateDMGLikeBash                                                       *)

\* filepath.Walk(item.Path, ...) adding info.Size() of every entry that is not
\* a directory; a root that cannot be read adds nothing
WalkBytes(item) == IF item.present THEN item.bytes ELSE 0

\* for _, item := range config.Contents { if item.Type == Dir { filepath.Walk } }
RECURSIVE DirItemsTotal(_)
DirItemsTotal(items) ==
    IF items = <<>> THEN 0
    ELSE (IF items[1].Type = Dir THEN WalkBytes(items[1]) ELSE 0)
         + DirItemsTotal(Tail(items))

\* a conservative estimate without its ceiling
LikeBashSizeMB_NoCeiling(c) ==
    LET totalSize == DirItemsTotal(c.Contents)
        sizeMB    == (totalSize \div MiB) + ((totalSize \div MiB) \div 2)
    IN  IF sizeMB < 200 THEN 200 ELSE sizeMB

\* sizeMB := int(totalSize/(1024*1024)) + int(float64(totalSize/(1024*1024))*0.5)
\* if sizeMB < 200 { sizeMB = 200 }; if sizeMB > 2000 { sizeMB = 2000 }
LikeBashSizeMB(c) ==
    LET totalSize == DirItemsTotal(c.Contents)
        sizeMB    == (totalSize \div MiB) + ((totalSize \div MiB) \div 2)
    IN  IF sizeMB < 200 THEN 200 ELSE IF sizeMB > 2000 THEN 2000 ELSE sizeMB

\* the first Dir item whose path ends in ".app", "" when there is none
mainAppPath(c) == IF AppItems(c) = <<>> THEN <<>> ELSE AppItems(c)[1].Path

\* a convert that passes no zlib-level when none is configured
BashLevel_NoDefault(c) == c.CompressionLevel

\* -imagekey zlib-level=<CompressionLevel>, zlib-level=9 when it is empty
BashLevel(c) == IF c.CompressionLevel # "" THEN c.CompressionLevel ELSE "9"

\* the FileName default, defer os.Remove(tempDMG), the search for the .app item
CreateDMGLikeBash_Start ==
    /\ At("CreateDMGLikeBash", "start")
    /\ cfg' = [cfg EXCEPT !.FileName = DefaultFileName(cfg)]
    /\ LET tempDMG == BashTempName(DefaultFileName(cfg))
           f == [Top EXCEPT !.img = tempDMG, !.defers = DeferRemove(Top, tempDMG)] IN
       IF AppItems(cfg) = <<>>
       THEN /\ Return(f, "err")
            /\ Log("mainAppPath", FALSE)
       ELSE /\ Goto(f, "create")
            /\ Log("mainAppPath", TRUE)
    /\ UNCHANGED <<other, entry, orig, result, images, dirs, staged, mounts, stageDir, nextTmp>>

\* hdiutil.CreateWithSize(title, mainAppPath, UDRW, tempDMG, sizeMB)
CreateDMGLikeBash_Create ==
    /\ At("CreateDMGLikeBash", "create")
    /\ \E ok \in BOOLEAN :
         IF ok /\ AppItems(cfg)[1].present
         THEN /\ images' = WriteImage(images, Top.img,
                                      [ImageRec(UDRW, "inter", {<<"Contents">>})
                                          EXCEPT !.sizeMB = LikeBashSizeMB(cfg),
                                                 !.from = mainAppPath(cfg)])
              /\ Goto(Top, "mount")
              /\ Log("Create", TRUE)
         ELSE /\ Return(Top, "err")
              /\ Log("Create", FALSE)
              /\ UNCHANGED images
    /\ UNCHANGED mounts
    /\ PipelineUnchanged

\* err := tmpMount(tempDMG, ...)
CreateDMGLikeBash_Mount ==
    /\ At("CreateDMGLikeBash", "mount")
    /\ Call(Top, "convert", TmpMountFrame(Top.img, "bash"))
    /\ UNCHANGED <<images, mounts, trace>>
    /\ PipelineUnchanged

\* if err != nil { return err }; hdiutil convert tempDMG -format UDZO -o FileName
CreateDMGLikeBash_Convert ==
    /\ At("CreateDMGLikeBash", "convert")
    /\ IF AbortOnMountError(ret)
       THEN /\ Return(Top, "err")
            /\ UNCHANGED <<images, trace>>
       ELSE \E ok \in BOOLEAN :
              IF ok /\ Convertible(images, mounts, Top.img)
              THEN /\ images' = WriteImage(images, cfg.FileName,
                                           [ConvertedImage(images[Top.img], UDZO)
                                               EXCEPT !.level = BashLevel(cfg)])
                   /\ Goto(Top, "fileicon")
                   /\ Log("convert", TRUE)
              ELSE /\ Return(Top, "err")
                   /\ Log("convert", FALSE)
                   /\ UNCHANGED images
    /\ UNCHANGED mounts
    /\ PipelineUnchanged

CreateDMGLikeBash_FileIcon == FileIconStep("CreateDMGLikeBash")

CreateDMGLikeBash_End == EndStep("CreateDMGLikeBash")

----------------------------------------------------------------------------
(* createDMGWithSafeHardLinks                                              *)

\* a variant that registers no removal of its staging directory
SafeDefers_None(f, d) == f.defers

\* defer os.RemoveAll(safeTempDir)
SafeDefers(f, d) == DeferRemoveAll(f, d)

createDMGWithSafeHardLinks_Start ==
    /\ At("createDMGWithSafeHardLinks", "start")
    /\ \E ok \in BOOLEAN :
         LET d == [role |-> "safe", n |-> nextTmp] IN
         IF ok
         THEN /\ dirs' = dirs \cup {d}
              /\ nextTmp' = nextTmp + 1
              /\ stageDir' = d
              /\ Goto([Top EXCEPT !.dir = d, !.defers = SafeDefers(Top, d), !.i = 1], "stage")
              /\ Log("MkdirTemp", TRUE)
         ELSE /\ Return(Top, "err")
              /\ Log("MkdirTemp", FALSE)
              /\ UNCHANGED <<dirs, nextTmp, stageDir>>
    /\ UNCHANGED <<other, entry, cfg, orig, result, images, staged, mounts>>

createDMGWithSafeHardLinks_StageItem ==
    StageLoop("createDMGWithSafeHardLinks", "store")

\* store.Write(safeTempDir/.DS_Store)
createDMGWithSafeHardLinks_WriteStore ==
    /\ At("createDMGWithSafeHardLinks", "store")
    /\ \E o \in StoreOutcomes(cfg, staged) :
         IF o.ok
         THEN /\ staged' = o.st
              /\ Goto(Top, "bg")
              /\ Log("store.Write", TRUE)
         ELSE /\ Return(Top, "err")
              /\ Log("store.Write", FALSE)
              /\ UNCHANGED staged
    /\ UNCHANGED <<other, entry, cfg, orig, result, images, dirs, mounts, stageDir, nextTmp>>

createDMGWithSafeHardLinks_Background ==
    StageBackground("createDMGWithSafeHardLinks", "size")

\* the sum of info.Size() over the entries named in S: a directory entry
\* stands for the files inside it, a symbolic link has the size of its target text
RECURSIVE TotalSize(_, _)
TotalSize(st, S) ==
    IF S = {} THEN 0
    ELSE LET x == CHOOSE y \in S : TRUE IN st[x].bytes + TotalSize(st, S \ {x})

\* a size estimate with the ceiling of the conservative policy
calculateDirSize_Capped(st) ==
    LET totalSize == TotalSize(st, DOMAIN st)
        sizeMB    == (totalSize \div MiB) + ((totalSize \div MiB) \div 5)
    IN  IF sizeMB < 100 THEN 100 ELSE IF sizeMB > 2000 THEN 2000 ELSE sizeMB

\* sizeMB := int(totalSize/(1024*1024)) + int(float64(totalSize/(1024*1024))*0.2)
\* if sizeMB < 100 { sizeMB = 100 }
calculateDirSize(st) ==
    LET totalSize == TotalSize(st, DOMAIN st)
        sizeMB    == (totalSize \div MiB) + ((totalSize \div MiB) \div 5)
    IN  IF sizeMB < 100 THEN 100 ELSE sizeMB

\* sizeMB, err := calculateDirSize(safeTempDir)
createDMGWithSafeHardLinks_Size ==
    /\ At("createDMGWithSafeHardLinks", "size")
    /\ \E ok \in BOOLEAN :
         IF ok THEN Goto([Top EXCEPT !.size = calculateDirSize(staged)], "create")
                    /\ Log("calculateDirSize", TRUE)
         ELSE Return(Top, "err") /\ Log("calculateDirSize", FALSE)
    /\ UNCHANGED <<images, mounts>>
    /\ PipelineUnchanged

\* createCompressedDMGWithSize for UDZO / UDBZ, else hdiutil.CreateWithSize with
\* config.Format at config.FileName as they were passed in
createDMGWithSafeHardLinks_Create ==
    /\ At("createDMGWithSafeHardLinks", "create")
    /\ IF IsCompressed(cfg.Format)
       THEN /\ Call(Top, "afterCompressed",
                    [Frame("createCompressedDMGWithSize", "start") EXCEPT !.size = Top.size])
            /\ UNCHANGED <<images, trace>>
       ELSE \E ok \in BOOLEAN :
              IF ok
              THEN /\ images' = WriteImage(images, cfg.FileName,
                                           StagedImage(cfg.Format, "final", staged, Top.size))
                   /\ Goto(Top, "fileicon")
                   /\ Log("Create", TRUE)
              ELSE /\ Return(Top, "err")
                   /\ Log("Create", FALSE)
                   /\ UNCHANGED images
    /\ UNCHANGED mounts
    /\ PipelineUnchanged

createDMGWithSafeHardLinks_AfterCompressed ==
    Std_AfterCompressed("createDMGWithSafeHardLinks", "fileicon")

createDMGWithSafeHardLinks_FileIcon == FileIconStep("createDMGWithSafeHardLinks")

createDMGWithSafeHardLinks_End == EndStep("createDMGWithSafeHardLinks")

----------------------------------------------------------------------------
(* The dmg command (Command.Action)                                        *)

\* strings.TrimSuffix(name, filepath.Ext(name))
TrimExt(n) == IF Len(n) > 1 THEN SubSeq(n, 1, Len(n) - 1) ELSE n

\* if out == "" { out = <app name without extension> + ".dmg" }
CommandOut(c) ==
    IF c.FileName = NoPath
    THEN [dir |-> <<>>, name |-> TrimExt(Base(c.Contents[1].Path)) \o <<".dmg">>]
    ELSE c.FileName

\* os.MkdirTemp("", "*-zapp-dmg"); defer os.RemoveAll(tempDir)
Action_MkdirTemp ==
    /\ At("Action", "start")
    /\ \E ok \in BOOLEAN :
         LET d == [role |-> "work", n |-> nextTmp] IN
         IF ok
         THEN /\ dirs' = dirs \cup {d}
              /\ nextTmp' = nextTmp + 1
              /\ Goto([Top EXCEPT !.dir = d, !.defers = DeferRemoveAll(Top, d)], "icon")
              /\ Log("MkdirTemp", TRUE)
         ELSE /\ Return(Top, "err")
              /\ Log("MkdirTemp", FALSE)
              /\ UNCHANGED <<dirs, nextTmp>>
    /\ UNCHANGED <<other, entry, cfg, orig, result, images, staged, mounts, stageDir>>

\* the deferred call registered after the icon directory was created:
\* defer os.RemoveAll(tempDir)
IconDirDefers(f, tempDir, tempDirForIcon) == DeferRemoveAll(f, tempDir)

\* if icon == "": os.MkdirTemp("", "*-zapp-dmg-icon"), the deferred call,
\* createIconSet(appDir, icon, ...)
Action_Icon ==
    /\ At("Action", "icon")
    /\ IF cfg.Icon
       THEN /\ Goto(Top, "build")
            /\ UNCHANGED <<cfg, dirs, nextTmp, trace>>
       ELSE \E mk \in BOOLEAN, made \in BOOLEAN :
              LET d == [role |-> "icon", n |-> nextTmp]
                  f == [Top EXCEPT !.defers = IconDirDefers(Top, Top.dir, d)] IN
              IF ~mk
              THEN /\ Return(Top, "err")
                   /\ Log("MkdirTemp", FALSE)
                   /\ UNCHANGED <<cfg, dirs, nextTmp>>
              ELSE /\ dirs' = dirs \cup {d}
                   /\ nextTmp' = nextTmp + 1
                   /\ IF made
                      THEN /\ cfg' = [cfg EXCEPT !.Icon = TRUE]
                           /\ Goto(f, "build")
                      ELSE /\ Return(f, "err")
                           /\ UNCHANGED cfg
                   /\ Log2("MkdirTemp", TRUE, "createIconSet", made)
    /\ UNCHANGED <<other, entry, orig, result, images, staged, mounts, stageDir>>

\* the defaults of out, the Config value, dmg.CreateDMG(defaultConfig, tempDir)
Action_CreateDMG ==
    /\ At("Action", "build")
    /\ cfg' = [cfg EXCEPT !.FileName = CommandOut(cfg)]
    /\ orig' = cfg'
    /\ Call(Top, "sign", [Frame("CreateDMG", "start") EXCEPT !.dir = Top.dir])
    /\ UNCHANGED <<other, entry, result, images, dirs, staged, mounts, stageDir, nextTmp, trace>>

\* if err != nil { return err }; cmd.RunSignCmd(c, out)
Action_Sign ==
    /\ At("Action", "sign")
    /\ IF ret = "err"
       THEN /\ Return(Top, "err")
            /\ UNCHANGED trace
       ELSE \E ok \in BOOLEAN :
              IF ok THEN Goto(Top, "notarize") /\ Log("RunSignCmd", TRUE)
              ELSE Return(Top, "err") /\ Log("RunSignCmd", FALSE)
    /\ UNCHANGED <<images, mounts>>
    /\ PipelineUnchanged

\* cmd.RunNotarizeCmd(c, out)
Action_Notarize ==
    /\ At("Action", "notarize")
    /\ \E ok \in BOOLEAN :
         IF ok THEN Return(Top, "ok") /\ Log("RunNotarizeCmd", TRUE)
         ELSE Return(Top, "err") /\ Log("RunNotarizeCmd", FALSE)
    /\ UNCHANGED <<images, mounts>>
    /\ PipelineUnchanged

----------------------------------------------------------------------------
(* Inputs and the initial state                                            *)

\* bytes: what the regular files at or below Path hold; len: the length of
\* the path text, which is the size Lstat reports for a symbolic link to it
AppItem    == [Type |-> Dir,  Path |-> <<<<"src">>, <<"MyApp", ".app">>>>, present |-> TRUE,
               bytes |-> 3 * MiB + 1, len |-> 13]
AppsLink   == [Type |-> Link, Path |-> <<<<"Applications">>>>, present |-> TRUE,
               bytes |-> 0, len |-> 13]
ReadmeItem == [Type |-> File, Path |-> <<<<"src">>, <<"readme">>>>, present |-> TRUE,
               bytes |-> 100, len |-> 10]
\* an application bundle whose path does not exist
GoneApp    == [Type |-> Dir,  Path |-> <<<<"src">>, <<"Gone", ".app">>>>, present |-> FALSE,
               bytes |-> 0, len |-> 12]

FileNames == {NoPath,
              [dir |-> <<>>, name |-> <<"out">>],
              [dir |-> <<>>, name |-> <<"out", ".dmg">>],
              [dir |-> <<"Volumes", "Ext">>, name |-> <<"out", ".dmg">>]}

Formats == {"", UDRO, UDRW, UDZO, UDBZ}

Levels == {"", "6"}

Entries == {"Action", "CreateDMG", "CreateDMGDirect", "CreateDMGLikeBash"}

\* the content lists the builds are run on
ContentsChoices == {<<AppItem, AppsLink>>, <<ReadmeItem>>, <<GoneApp, AppsLink>>}

\* the directory a library caller passes to CreateDMG as sourceDir
SourceDir == [role |-> "sourceDir", n |-> 0]

\* the Config values an entry point is started with; a field the entry point
\* never reads is left at its zero value, and the command passes what its flag
\* validation lets through
Configs(e) ==
    {c \in [FileName : FileNames, Title : {<<"T">>}, Icon : BOOLEAN,
            Background : BOOLEAN, Format : Formats, CompressionLevel : Levels,
            UseHardLinks : BOOLEAN, OptimizeAppSize : BOOLEAN,
            Contents : ContentsChoices,
            BackgroundBytes : {4096}, StoreBytes : {6148}] :
        /\ e = "Action" => /\ c.Format # ""
                           /\ c.FileName.dir = <<>>
                           /\ c.Contents = <<AppItem, AppsLink>>
                           /\ ~c.OptimizeAppSize
        /\ e \in {"CreateDMGDirect", "CreateDMGLikeBash"} =>
                           ~c.UseHardLinks /\ ~c.OptimizeAppSize
        /\ e = "CreateDMGLikeBash" => c.Format = ""
        /\ e # "CreateDMGLikeBash" => c.CompressionLevel = "6"}

EntryFrame(e) == IF e = "CreateDMG" THEN [Frame(e, "start") EXCEPT !.dir = SourceDir]
                 ELSE Frame(e, "start")

InitWith(e, c) ==
    /\ entry = e
    /\ cfg = c
    /\ orig = c
    /\ stack = <<EntryFrame(e)>>
    /\ mode = "run"
    /\ ret = "none"
    /\ result = "running"
    /\ images = <<>>
    /\ dirs = {}
    /\ staged = <<>>
    /\ mounts = {}
    /\ stageDir = NoDir
    /\ nextTmp = 1
    /\ trace = <<>>
    /\ other = NoBuild

Init == \E e \in Entries : \E c \in Configs(e) : InitWith(e, c)

Next ==
    \/ Action_MkdirTemp \/ Action_Icon \/ Action_CreateDMG \/ Action_Sign
    \/ Action_Notarize
    \/ CreateDMG_Start \/ CreateDMG_ReturnSafe \/ CreateDMG_WriteStore
    \/ CreateDMG_Create \/ CreateDMG_AfterCompressed \/ CreateDMG_Rename
    \/ CreateDMG_Convert \/ CreateDMG_Mount \/ CreateDMG_FileIcon \/ CreateDMG_End
    \/ CreateDMGDirect_Start \/ CreateDMGDirect_WriteStore \/ CreateDMGDirect_Create
    \/ CreateDMGDirect_AfterCompressed \/ CreateDMGDirect_Rename
    \/ CreateDMGDirect_Convert \/ CreateDMGDirect_FileIcon \/ CreateDMGDirect_End
    \/ CreateDMGLikeBash_Start \/ CreateDMGLikeBash_Create \/ CreateDMGLikeBash_Mount
    \/ CreateDMGLikeBash_Convert \/ CreateDMGLikeBash_FileIcon \/ CreateDMGLikeBash_End
    \/ createDMGWithSafeHardLinks_Start \/ createDMGWithSafeHardLinks_StageItem
    \/ createDMGWithSafeHardLinks_WriteStore \/ createDMGWithSafeHardLinks_Background
    \/ createDMGWithSafeHardLinks_Size \/ createDMGWithSafeHardLinks_Create
    \/ createDMGWithSafeHardLinks_AfterCompressed
    \/ createDMGWithSafeHardLinks_FileIcon \/ createDMGWithSafeHardLinks_End
    \/ setupSourceDirectory_Optimize \/ setupSourceDirectory_StageItem
    \/ setupSourceDirectory_Background
    \/ createSymbolicLinks_StageItem \/ createSymbolicLinks_Background
    \/ createCompressedDMG_Create \/ createCompressedDMG_Mount
    \/ createCompressedDMG_Force \/ createCompressedDMG_Convert
    \/ createCompressedDMGDirect_Create \/ createCompressedDMGDirect_Mount
    \/ createCompressedDMGDirect_Force \/ createCompressedDMGDirect_Convert
    \/ createCompressedDMGWithSize_Create \/ createCompressedDMGWithSize_Mount
    \/ createCompressedDMGWithSize_Force \/ createCompressedDMGWithSize_Convert
    \/ setFileIcon_MkdirTemp \/ setFileIcon_Run
    \/ tmpMount_MkdirTemp \/ tmpMount_Attach \/ process_Step \/ process_Return
    \/ process_Panic
    \/ tmpMount_DeferredDetach \/ Deferred_RemoveAll \/ Deferred_Remove \/ PopFrame

Spec == Init /\ [][Next]_vars

\* the entry point has returned (or the panic has left it)
Finished == mode = "done"

----------------------------------------------------------------------------
(* The staging functions on their own: every content list of up to         *)
(* MaxItems items, also with repeated base names and missing sources       *)

MaxItems == 2

Readme2Item == [Type |-> File, Path |-> <<<<"alt">>, <<"readme">>>>, present |-> TRUE,
                bytes |-> 200, len |-> 10]
MissingItem == [Type |-> File, Path |-> <<<<"src">>, <<"gone">>>>, present |-> FALSE,
                bytes |-> 0, len |-> 8]

ItemChoices == {AppItem, AppsLink, ReadmeItem, Readme2Item, MissingItem}

ContentLists == UNION {[1..n -> ItemChoices] : n \in 0..MaxItems}

StageFns == {"setupSourceDirectory", "createSymbolicLinks", "createDMGWithSafeHardLinks"}

StageConfigs(e) ==
    {c \in [FileName : {NoPath}, Title : {<<"T">>}, Icon : {FALSE},
            Background : BOOLEAN, Format : {UDZO}, CompressionLevel : {""},
            UseHardLinks : BOOLEAN, OptimizeAppSize : {FALSE},
            Contents : ContentLists,
            BackgroundBytes : {4096}, StoreBytes : {6148}] :
        e # "setupSourceDirectory" => ~c.UseHardLinks}

InitStage ==
    \E e \in StageFns : \E c \in StageConfigs(e) :
        /\ entry = e
        /\ cfg = c
        /\ orig = c
        /\ stack = <<Frame(e, IF e = "createSymbolicLinks" THEN "stage" ELSE "start")>>
        /\ mode = "run"
        /\ ret = "none"
        /\ result = "running"
        /\ images = <<>>
        /\ dirs = IF e = "createDMGWithSafeHardLinks" THEN {} ELSE {SourceDir}
        /\ staged = <<>>
        /\ mounts = {}
        /\ stageDir = IF e = "createDMGWithSafeHardLinks" THEN NoDir ELSE SourceDir
        /\ nextTmp = 1
        /\ trace = <<>>
        /\ other = NoBuild

NextStage ==
    \/ setupSourceDirectory_Optimize \/ setupSourceDirectory_StageItem
    \/ setupSourceDirectory_Background
    \/ createSymbolicLinks_StageItem \/ createSymbolicLinks_Background
    \/ createDMGWithSafeHardLinks_Start \/ createDMGWithSafeHardLinks_StageItem
    \/ Deferred_RemoveAll \/ PopFrame

SpecStage == InitStage /\ [][NextStage]_vars

----------------------------------------------------------------------------
(* The size estimates on their own: content of many sizes under the two    *)
(* variants that size their image                                          *)

MaxSizeItems == 3

\* the most content, in MiB, a build is given: sums stay below 2^31 bytes
MaxTotalMiB == 2040

SizedItem(type, name, q, r, present) ==
    [Type |-> type, Path |-> <<<<"src">>, name>>, present |-> present,
     bytes |-> q * MiB + r, len |-> 12]

SizeItemChoices ==
    {SizedItem(Dir,  <<"A", ".app">>, 134, 1, TRUE),
     SizedItem(Dir,  <<"B", ".app">>, 133, MiB - 1, TRUE),
     SizedItem(Dir,  <<"C", ".app">>, 900, 0, TRUE),
     SizedItem(Dir,  <<"data">>,      900, MiB - 1, TRUE),
     SizedItem(File, <<"big">>,       600, 1, TRUE),
     SizedItem(Dir,  <<"G", ".app">>, 300, 0, FALSE),
     AppsLink}

RECURSIVE WholeMiB(_)
WholeMiB(items) ==
    IF items = <<>> THEN 0
    ELSE (items[1].bytes \div MiB) + 1 + WholeMiB(Tail(items))

SizeContentLists ==
    {l \in UNION {[1..n -> SizeItemChoices] : n \in 0..MaxSizeItems} :
        WholeMiB(l) <= MaxTotalMiB}

SizeEntries == {"CreateDMGLikeBash", "createDMGWithSafeHardLinks"}

SizeConfigs(e) ==
    [FileName : {[dir |-> <<>>, name |-> <<"out", ".dmg">>]}, Title : {<<"T">>},
     Icon : {FALSE}, Background : BOOLEAN,
     Format : {IF e = "CreateDMGLikeBash" THEN "" ELSE UDRO},
     CompressionLevel : {""}, UseHardLinks : {e # "CreateDMGLikeBash"},
     OptimizeAppSize : {FALSE}, Contents : SizeContentLists,
     BackgroundBytes : {4096}, StoreBytes : {6148}]

InitSize == \E e \in SizeEntries : \E c \in SizeConfigs(e) : InitWith(e, c)

NextSize ==
    \/ CreateDMGLikeBash_Start \/ CreateDMGLikeBash_Create
    \/ createDMGWithSafeHardLinks_Start \/ createDMGWithSafeHardLinks_StageItem
    \/ createDMGWithSafeHardLinks_WriteStore \/ createDMGWithSafeHardLinks_Background
    \/ createDMGWithSafeHardLinks_Size \/ createDMGWithSafeHardLinks_Create

SpecSize == InitSize /\ [][NextSize]_vars

----------------------------------------------------------------------------
(* Two exact-size builds at once in one file system.  The variables entry, *)
(* cfg, ..., trace belong to the build that takes the next step; `other`   *)
(* holds them for the build that waits.  Image files, directories, the     *)
(* mount table and the os.MkdirTemp names are shared.                      *)

\* what a build keeps to itself
Private(e, c, o, stk, m, r, res, stg, sd, tr) ==
    [entry |-> e, cfg |-> c, orig |-> o, stack |-> stk, mode |-> m, ret |-> r,
     result |-> res, staged |-> stg, stageDir |-> sd, trace |-> tr]

\* the scheduler lets the other build run
Switch ==
    /\ other.mode # "done"
    /\ other' = Private(entry, cfg, orig, stack, mode, ret, result, staged, stageDir, trace)
    /\ entry' = other.entry
    /\ cfg' = other.cfg
    /\ orig' = other.orig
    /\ stack' = other.stack
    /\ mode' = other.mode
    /\ ret' = other.ret
    /\ result' = other.result
    /\ staged' = other.staged
    /\ stageDir' = other.stageDir
    /\ trace' = other.trace
    /\ UNCHANGED <<images, dirs, mounts, nextTmp>>

\* the output files of concurrent builds
PairFileNames ==
    {[dir |-> <<>>, name |-> <<"a", ".dmg">>],
     [dir |-> <<>>, name |-> <<"b", ".dmg">>],
     [dir |-> <<>>, name |-> <<"temp_", "a", ".dmg">>],
     [dir |-> <<"Volumes", "Ext">>, name |-> <<"a", ".dmg">>]}

PairConfig(title, f) ==
    [FileName |-> f, Title |-> title, Icon |-> FALSE, Background |-> FALSE,
     Format |-> "", CompressionLevel |-> "", UseHardLinks |-> FALSE,
     OptimizeAppSize |-> FALSE, Contents |-> <<AppItem, AppsLink>>,
     BackgroundBytes |-> 4096, StoreBytes |-> 6148]

\* two builds, A and B, with different output files
InitPair ==
    \E fa \in PairFileNames : \E fb \in PairFileNames \ {fa} :
        /\ entry = "CreateDMGLikeBash"
        /\ cfg = PairConfig(<<"A">>, fa)
        /\ orig = cfg
        /\ stack = <<EntryFrame(entry)>>
        /\ mode = "run"
        /\ ret = "none"
        /\ result = "running"
        /\ images = <<>>
        /\ dirs = {}
        /\ staged = <<>>
        /\ mounts = {}
        /\ stageDir = NoDir
        /\ nextTmp = 1
        /\ trace = <<>>
        /\ other = Private("CreateDMGLikeBash", PairConfig(<<"B">>, fb),
                           PairConfig(<<"B">>, fb),
                           <<EntryFrame("CreateDMGLikeBash")>>, "run", "none",
                           "running", <<>>, NoDir, <<>>)

NextPair ==
    \/ CreateDMGLikeBash_Start \/ CreateDMGLikeBash_Create \/ CreateDMGLikeBash_Mount
    \/ CreateDMGLikeBash_Convert \/ CreateDMGLikeBash_FileIcon
    \/ tmpMount_MkdirTemp \/ tmpMount_Attach \/ process_Step \/ process_Return
    \/ process_Panic
    \/ tmpMount_DeferredDetach \/ Deferred_RemoveAll \/ Deferred_Remove \/ PopFrame
    \/ Switch

SpecPair == InitPair /\ [][NextPair]_vars

----------------------------------------------------------------------------
(* smartCopyDir on its own, over source trees                              *)
(* A tree is a set of nodes [p, d]: p is the path below the source root as *)
(* a sequence of names and d tells whether os.Stat reports a directory.    *)

Node(p, d) == [p |-> p, d |-> d]

\* excludePatterns: a pattern is a literal name or "*" followed by an extension
ExcludePatterns ==
    <<[star |-> FALSE, text |-> <<".DS_Store">>],
      [star |-> FALSE, text |-> <<"__MACOSX">>],
      [star |-> FALSE, text |-> <<".Trashes">>],
      [star |-> FALSE, text |-> <<".fseventsd">>],
      [star |-> FALSE, text |-> <<".Spotlight-V100">>],
      [star |-> FALSE, text |-> <<".TemporaryItems">>],
      [star |-> TRUE,  text |-> <<".tmp">>],
      [star |-> TRUE,  text |-> <<".log">>],
      [star |-> TRUE,  text |-> <<".cache">>]>>

\* filepath.Match(pattern, name)
Match(pattern, name) ==
    IF pattern.star THEN HasSuffix(name, pattern.text[1]) ELSE name = pattern.text

\* shouldExclude(name)
shouldExclude(name) == \E k \in DOMAIN ExcludePatterns : Match(ExcludePatterns[k], name)

\* the names of the source trees in the byte order os.ReadDir sorts by
NameOrder ==
    <<<<".DS_Store">>, <<".Spotlight-V100">>, <<".TemporaryItems">>, <<".Trashes">>,
      <<".fseventsd">>, <<"__MACOSX">>, <<"a", ".tmp">>, <<"b", ".cache">>, <<"f">>,
      <<"lib">>, <<"sub">>, <<"x", ".log">>>>

Rank(name) == CHOOSE k \in DOMAIN NameOrder : NameOrder[k] = name

\* the nodes directly below directory dir
Children(t, dir) ==
    {n \in t : Len(n.p) = Len(dir) + 1 /\ SubSeq(n.p, 1, Len(dir)) = dir}

\* os.ReadDir: the entries sorted by name
RECURSIVE SortedByName(_)
SortedByName(E) ==
    IF E = {} THEN <<>>
    ELSE LET m == CHOOSE e \in E : \A o \in E : Rank(Base(e.p)) <= Rank(Base(o.p))
         IN  <<m>> \o SortedByName(E \ {m})

\* smartCopyDir(src, dst) with c = [Tree, NoStat, Broken]: NoStat are the
\* entries os.Stat fails on, Broken the directories os.ReadDir fails on and
\* the files copyFile fails on.  made: the paths created below dst so far.
RECURSIVE smartCopyDir(_, _, _)
RECURSIVE CopyEntries(_, _, _)
smartCopyDir(c, src, made) ==
    IF src \in c.Broken
    THEN [ok |-> FALSE, made |-> made \cup {src}]
    ELSE CopyEntries(c, SortedByName(Children(c.Tree, src)), made \cup {src})

\* for _, entry := range entries
CopyEntries(c, entries, made) ==
    IF entries = <<>> THEN [ok |-> TRUE, made |-> made]
    ELSE LET e == Head(entries) IN
         IF shouldExclude(Base(e.p)) \/ e.p \in c.NoStat
         THEN CopyEntries(c, Tail(entries), made)
         ELSE IF e.d
         THEN LET r == smartCopyDir(c, e.p, made) IN
              IF r.ok THEN CopyEntries(c, Tail(entries), r.made) ELSE r
         ELSE IF e.p \in c.Broken
         THEN [ok |-> FALSE, made |-> made \cup {e.p}]
         ELSE CopyEntries(c, Tail(entries), made \cup {e.p})

\* the nodes source trees are built from
CoreNodes ==
    {Node(<<<<"f">>>>, FALSE),
     Node(<<<<"lib">>>>, TRUE),
     Node(<<<<"lib">>, <<"f">>>>, FALSE),
     Node(<<<<"lib">>, <<".DS_Store">>>>, FALSE),
     Node(<<<<"lib">>, <<"sub">>>>, TRUE),
     Node(<<<<"lib">>, <<"sub">>, <<"f">>>>, FALSE),
     Node(<<<<"lib">>, <<"sub">>, <<"x", ".log">>>>, FALSE),
     Node(<<<<"__MACOSX">>>>, TRUE),
     Node(<<<<"__MACOSX">>, <<"f">>>>, FALSE)}

ExtraNodes ==
    {Node(<<<<".DS_Store">>>>, FALSE), Node(<<<<".Trashes">>>>, TRUE),
     Node(<<<<".fseventsd">>>>, TRUE), Node(<<<<".Spotlight-V100">>>>, TRUE),
     Node(<<<<".TemporaryItems">>>>, TRUE), Node(<<<<"a", ".tmp">>>>, FALSE),
     Node(<<<<"b", ".cache">>>>, FALSE)}

\* every node below the root has its parent directory in the tree
IsTree(t) ==
    \A n \in t : Len(n.p) > 1 => Node(SubSeq(n.p, 1, Len(n.p) - 1), TRUE) \in t

SourceTrees ==
    {core \cup extra : core \in {t \in SUBSET CoreNodes : IsTree(t)},
                       extra \in {{}} \cup {{x} : x \in ExtraNodes}}

AtMostOne(S) == {{}} \cup {{x} : x \in S}

CopyInputs ==
    UNION {[Tree : {t}, NoStat : AtMostOne({n.p : n \in t}),
            Broken : AtMostOne({n.p : n \in t} \cup {<<>>})] : t \in SourceTrees}

InitCopy == \E c \in CopyInputs : InitWith("smartCopyDir", c)

\* the destination directory as the copy made it
CopiedEntries(c, made) ==
    [p \in made |->
        StagedEntry(IF p = <<>> \/ Node(p, TRUE) \in c.Tree THEN "dir" ELSE "file",
                    NoIno, NoContent, 0, "none")]

\* one call smartCopyDir(src, dst) on a fresh dst
smartCopyDir_Run ==
    /\ At("smartCopyDir", "start")
    /\ LET r == smartCopyDir(cfg, <<>>, {}) IN
       /\ staged' = CopiedEntries(cfg, r.made)
       /\ Return(Top, IF r.ok THEN "ok" ELSE "err")
       /\ Log("smartCopyDir", r.ok)
    /\ UNCHANGED <<other, entry, cfg, orig, result, images, dirs, mounts, stageDir, nextTmp>>

NextCopy == smartCopyDir_Run \/ PopFrame

SpecCopy == InitCopy /\ [][NextCopy]_vars

----------------------------------------------------------------------------
(* The exact-size build on its own: content lists with no, one or two      *)
(* application bundles at any position, with and without a compression     *)
(* level                                                                   *)

MaxBashItems == 2

App2Item == [Type |-> Dir,  Path |-> <<<<"src">>, <<"Other", ".app">>>>, present |-> TRUE,
             bytes |-> 2 * MiB, len |-> 13]
\* a directory that is no application bundle
DataItem == [Type |-> Dir,  Path |-> <<<<"src">>, <<"data">>>>, present |-> TRUE,
             bytes |-> 5 * MiB, len |-> 8]
\* a file whose name ends in ".app"
AppFile  == [Type |-> File, Path |-> <<<<"src">>, <<"file", ".app">>>>, present |-> TRUE,
             bytes |-> 10, len |-> 12]

BashItemChoices == {AppItem, App2Item, DataItem, AppFile, ReadmeItem, AppsLink, GoneApp}

BashContentLists == UNION {[1..n -> BashItemChoices] : n \in 0..MaxBashItems}

BashConfigs ==
    [FileName : {[dir |-> <<>>, name |-> <<"out", ".dmg">>]}, Title : {<<"T">>},
     Icon : BOOLEAN, Background : BOOLEAN, Format : {""}, CompressionLevel : Levels,
     UseHardLinks : {FALSE}, OptimizeAppSize : {FALSE}, Contents : BashContentLists,
     BackgroundBytes : {4096}, StoreBytes : {6148}]

InitBash == \E c \in BashConfigs : InitWith("CreateDMGLikeBash", c)

NextBash ==
    \/ CreateDMGLikeBash_Start \/ CreateDMGLikeBash_Create \/ CreateDMGLikeBash_Mount
    \/ CreateDMGLikeBash_Convert \/ CreateDMGLikeBash_FileIcon \/ CreateDMGLikeBash_End
    \/ setFileIcon_MkdirTemp \/ setFileIcon_Run
    \/ tmpMount_MkdirTemp \/ tmpMount_Attach \/ process_Step \/ process_Return
    \/ process_Panic
    \/ tmpMount_DeferredDetach \/ Deferred_RemoveAll \/ Deferred_Remove \/ PopFrame

SpecBash == InitBash /\ [][NextBash]_vars

----------------------------------------------------------------------------
(* The icon positions on their own: the two positions the dmg command      *)
(* computes from its flags, positions a caller of the package configures,  *)
(* and the conversion under which CreateDMG hands them to the              *)
(* layout-metadata writer                                                  *)

MaxPosItems == 2

\* 2^16: a uint32 is kept as <<high half, low half>>
Half == 65536

\* int(f) for the float64 quotient a / b, b > 0: Go truncates toward zero.
\* The quotients of the command are multiples of 1/6, so the rounding of the
\* float64 operations never moves one across an integer.
Trunc(a, b) == IF a >= 0 THEN a \div b ELSE -((-a) \div b)

\* uint32(x) for an int x of -2^31 .. 2^31 - 1: the low 32 bits of the two's
\* complement of x
uint32(x) ==
    IF x >= 0 THEN <<x \div Half, x % Half>>
    ELSE <<(Half - 1) - ((-x - 1) \div Half), (Half - 1) - ((-x - 1) % Half)>>

\* the uint32 value u is the integer x
SameInteger(u, x) == x >= 0 /\ u = <<x \div Half, x % Half>>

PosItem(type, path, x, y) == [Type |-> type, Path |-> path, X |-> x, Y |-> y]

\* the values of --window-width and --window-height the command is run with:
\* the two flags have no validation
WindowWidths  == {0, 100, 640, 1920}
WindowHeights == {0, 100, 480, 1080}
\* --label-size is accepted from 10 to 16
LabelSizes == 10..16
\* --contents-icon-size is accepted from 16 to 512
ContentsIconSizes == {16, 128, 512}

Flags ==
    [windowWidth : WindowWidths, windowHeight : WindowHeights,
     labelSize : LabelSizes, contentsIconSize : ContentsIconSizes]

\* the Contents of the Config the dmg command builds
CommandContents(f) ==
    LET centerY == Trunc(f.windowHeight - f.contentsIconSize, 2) + f.labelSize
    IN  <<PosItem(Dir, AppItem.Path,
                  Trunc(2 * f.windowWidth - 3 * f.contentsIconSize, 6), centerY),
          PosItem(Link, AppsLink.Path,
                  Trunc(4 * f.windowWidth + 3 * f.contentsIconSize, 6), centerY)>>

\* the coordinates a caller of the package gives an item
Coordinates == {-1, 0, 149}

PosItemChoices ==
    {PosItem(Dir, AppItem.Path, x, y) : x \in Coordinates, y \in Coordinates} \cup
    {PosItem(File, ReadmeItem.Path, x, y) : x \in Coordinates, y \in Coordinates} \cup
    {PosItem(Link, AppsLink.Path, x, y) : x \in Coordinates, y \in Coordinates}

\* content lists whose items have distinct base names
PosContentLists ==
    {l \in UNION {[1..n -> PosItemChoices] : n \in 0..MaxPosItems} :
        \A j, k \in DOMAIN l : j # k => DestName(l[j]) # DestName(l[k])}

PosConfig(l) == [Contents |-> l, StoreBytes |-> 6148]

InitPosWith(e, c, f, pc) ==
    /\ entry = e
    /\ cfg = c
    /\ orig = f
    /\ stack = <<Frame(e, pc)>>
    /\ mode = "run"
    /\ ret = "none"
    /\ result = "running"
    /\ images = <<>>
    /\ dirs = {}
    /\ staged = <<>>
    /\ mounts = {}
    /\ stageDir = NoDir
    /\ nextTmp = 1
    /\ trace = <<>>
    /\ other = NoBuild

InitPos ==
    \/ \E f \in Flags : InitPosWith("Action", PosConfig(<<>>), f, "contents")
    \/ \E l \in PosContentLists : InitPosWith("CreateDMG", PosConfig(l), PosConfig(l), "positions")

\* Command.Action: the Config literal with the two computed positions, then
\* dmg.CreateDMG(config, ...)
Action_Contents ==
    /\ At("Action", "contents")
    /\ cfg' = PosConfig(CommandContents(orig))
    /\ Call(Top, "created", Frame("CreateDMG", "positions"))
    /\ UNCHANGED <<entry, orig, result, images, dirs, staged, mounts, stageDir,
                   nextTmp, trace, other>>

\* what SetIconPos(name, x, y) adds to the store
IconPos(item) == <<"pos", <<DestName(item), uint32(item.X), uint32(item.Y)>>>>

\* the positions the store holds so far
PosStore == IF <<".DS_Store">> \in DOMAIN staged THEN staged[<<".DS_Store">>].settings ELSE {}

\* one round of `for _, content := range config.Contents { store.SetIconPos(...) }`
CreateDMG_SetIconPos ==
    /\ At("CreateDMG", "positions")
    /\ Top.i <= Len(cfg.Contents)
    /\ staged' = Put(staged, <<".DS_Store">>,
                     StoreEntry(cfg, PosStore \cup {IconPos(cfg.Contents[Top.i])}))
    /\ Goto([Top EXCEPT !.i = @ + 1], "positions")
    /\ UNCHANGED <<entry, cfg, orig, result, images, dirs, mounts, stageDir,
                   nextTmp, trace, other>>

\* the loop is over: the store holds a position for every item
CreateDMG_PositionsSet ==
    /\ At("CreateDMG", "positions")
    /\ Top.i > Len(cfg.Contents)
    /\ Goto(Top, "store")
    /\ UNCHANGED <<entry, cfg, orig, result, images, dirs, staged, mounts, stageDir,
                   nextTmp, trace, other>>

NextPos == Action_Contents \/ CreateDMG_SetIconPos \/ CreateDMG_PositionsSet

SpecPos == InitPos /\ [][NextPos]_vars

----------------------------------------------------------------------------
(* The three recursive directory copies, call by call, over source trees   *)
(* that hold symbolic links.  A tree is a set of entries [p, kind, to]: p   *)
(* is the path below the source root, kind is "dir", "file" or "link", and *)
(* `to` is the path below the source root a link points at (NoTarget for a *)
(* link whose target is missing).                                          *)

\* the number of symbolic links the kernel follows in one path resolution
\* before it fails with ELOOP
MaxSymlinks == 2

\* the longest path, in components below the root, copies are run to
MaxStack == 12

NoTarget == <<<<"missing">>>>

TreeEntry(p, kind, to) == [p |-> p, kind |-> kind, to |-> to]

EntryAt(t, p) == CHOOSE n \in t : n.p = p

\* path resolution as os.Stat does it: from directory `real`, component by
\* component, following every symbolic link; n links were followed so far
RECURSIVE Resolve(_, _, _, _)
Resolve(t, real, rest, n) ==
    IF rest = <<>> THEN [ok |-> TRUE, real |-> real]
    ELSE LET next == Append(real, Head(rest)) IN
         IF ~\E e \in t : e.p = next THEN [ok |-> FALSE, real |-> next]
         ELSE LET e == EntryAt(t, next) IN
              CASE e.kind = "dir"  -> Resolve(t, next, Tail(rest), n)
                [] e.kind = "file" -> [ok |-> Tail(rest) = <<>>, real |-> next]
                [] e.kind = "link" ->
                     IF n + 1 > MaxSymlinks \/ e.to = NoTarget
                     THEN [ok |-> FALSE, real |-> next]
                     ELSE Resolve(t, e.to, Tail(rest), n + 1)

\* os.Stat(src/path)
Stat(t, path) == Resolve(t, <<>>, path, 0)

\* fi.IsDir() of a resolved path
IsDirectory(t, real) == real = <<>> \/ EntryAt(t, real).kind = "dir"

\* isDir(path): os.Stat follows links, so the ModeSymlink branch is never
\* taken; err is the error of os.Stat
isDir(t, path) ==
    LET s == Stat(t, path) IN
    [err |-> ~s.ok, dir |-> s.ok /\ IsDirectory(t, s.real)]

\* the directories of a tree, the root among them
Directories(t) == {<<>>} \cup {e.p : e \in {x \in t : x.kind = "dir"}}

\* what os.ReadDir returns for every directory of the tree: the names in it,
\* sorted
Listings(t) ==
    [d \in Directories(t) |->
        LET listed == SortedByName(Children(t, d))
        IN  [k \in DOMAIN listed |-> Base(listed[k].p)]]

\* os.ReadDir(src/path) in the file system c
ReadDir(c, path) == c.Listing[Stat(c.Tree, path).real]

\* the entries that remain after one was skipped because isDir failed on it
AfterStatError_Retry(entries) == entries

\* `continue` when isDir returns an error
AfterStatError(entries) == Tail(entries)

\* the entries source trees are built from
TreeEntryChoices ==
    {TreeEntry(<<<<"f">>>>, "file", <<>>),
     TreeEntry(<<<<"lib">>>>, "dir", <<>>),
     TreeEntry(<<<<"lib">>, <<"f">>>>, "file", <<>>),
     TreeEntry(<<<<"lib">>, <<"sub">>>>, "dir", <<>>),
     TreeEntry(<<<<"lib">>, <<"sub">>>>, "link", <<>>),
     TreeEntry(<<<<"lib">>, <<"sub">>>>, "link", <<<<"lib">>>>),
     TreeEntry(<<<<"lib">>, <<"sub">>>>, "link", <<<<"f">>>>),
     TreeEntry(<<<<"lib">>, <<"sub">>>>, "link", NoTarget),
     TreeEntry(<<<<"lib">>, <<"sub">>, <<"f">>>>, "file", <<>>),
     TreeEntry(<<<<"sub">>>>, "link", <<>>)}

\* one entry per path, every entry inside a directory of the tree, every
\* link target that is not missing in the tree
IsSourceTree(t) ==
    /\ \A a, b \in t : a.p = b.p => a = b
    /\ \A e \in t : Len(e.p) > 1 =>
           TreeEntry(SubSeq(e.p, 1, Len(e.p) - 1), "dir", <<>>) \in t
    /\ \A e \in t : (e.kind = "link" /\ e.to \notin {NoTarget, <<>>}) =>
           \E d \in t : d.p = e.to /\ d.kind # "link"

LinkedTrees == {t \in SUBSET TreeEntryChoices : IsSourceTree(t)}

CopyFns == {"copyDir", "smartCopyDir", "copyDirWithHardLinks"}

\* the longest destination path os.MkdirAll accepts, in components
PathMaxes == {3, MaxStack}

\* Tree: the source; Listing: its directory listings; Broken: the files
\* os.Open fails on; CrossDevice: os.Link
\* fails; PathMax: see PathMaxes
TreeInputs ==
    UNION {[Tree : {t}, Listing : {Listings(t)},
            Broken : AtMostOne({e.p : e \in {x \in t : x.kind = "file"}}),
            CrossDevice : BOOLEAN, PathMax : PathMaxes] : t \in LinkedTrees}

\* a call fn(src/path, dst/path); entries: what is left of the range loop
CopyFrame(fn, path) ==
    [fn |-> fn, pc |-> "start", defers |-> <<>>, path |-> path, entries |-> <<>>]

InitTree ==
    \E fn \in CopyFns : \E c \in TreeInputs :
        /\ c.CrossDevice => fn = "copyDirWithHardLinks"
        /\ entry = fn
        /\ cfg = c
        /\ orig = c
        /\ stack = <<CopyFrame(fn, <<>>)>>
        /\ mode = "run"
        /\ ret = "none"
        /\ result = "running"
        /\ images = <<>>
        /\ dirs = {}
        /\ staged = <<>>
        /\ mounts = {}
        /\ stageDir = NoDir
        /\ nextTmp = 1
        /\ trace = <<>>
        /\ other = NoBuild

TreeUnchanged == UNCHANGED <<other, entry, cfg, orig, result, images, dirs, mounts,
                             stageDir, nextTmp, trace>>

\* os.Stat(src), os.MkdirAll(dst, mode), os.ReadDir(src)
TreeCopy_Start(fn) ==
    /\ At(fn, "start")
    /\ IF ~Stat(cfg.Tree, Top.path).ok \/ Len(Top.path) > cfg.PathMax
       THEN /\ Return(Top, "err")
            /\ UNCHANGED staged
       ELSE /\ staged' = Put(staged, Top.path,
                             StagedEntry("dir", NoIno, NoContent, 0, "none"))
            /\ Goto([Top EXCEPT !.entries = ReadDir(cfg, Top.path)], "loop")
    /\ TreeUnchanged

\* the file the copy of src/path makes at dst/path: copyFile, or os.Link with
\* copyFile when the link fails
CopiedFile(fn, c, real) ==
    IF fn = "copyDirWithHardLinks" /\ ~c.CrossDevice
    THEN StagedEntry("hardlink", real, Content(real, 1), 1, "none")
    ELSE StagedEntry("file", NoIno, Content(real, 1), 1, "none")

\* one round of `for _, entry := range entries`
TreeCopy_Entry(fn) ==
    /\ At(fn, "loop")
    /\ Top.entries # <<>>
    /\ Len(stack) < MaxStack
    /\ LET name == Head(Top.entries)
           path == Append(Top.path, name)
           d    == isDir(cfg.Tree, path)
           real == Stat(cfg.Tree, path).real
           rest == [Top EXCEPT !.entries = Tail(@)]
       IN  IF fn = "smartCopyDir" /\ shouldExclude(name)
           THEN /\ Goto(rest, "loop")
                /\ UNCHANGED staged
           ELSE IF d.err
           THEN /\ Goto([Top EXCEPT !.entries = AfterStatError(@)], "loop")
                /\ UNCHANGED staged
           ELSE IF d.dir
           THEN /\ Call(rest, "called", CopyFrame(fn, path))
                /\ UNCHANGED staged
           ELSE IF real \in cfg.Broken
           THEN /\ Return(Top, "err")
                /\ UNCHANGED staged
           ELSE /\ staged' = Put(staged, path, CopiedFile(fn, cfg, real))
                /\ Goto(rest, "loop")
    /\ TreeUnchanged

\* `if err = fn(srcPath, dstPath); err != nil { return err }`
TreeCopy_AfterCall(fn) ==
    /\ At(fn, "called")
    /\ IF ret = "err" THEN Return(Top, "err") ELSE Goto(Top, "loop")
    /\ UNCHANGED staged
    /\ TreeUnchanged

\* `return nil` after the loop
TreeCopy_Done(fn) ==
    /\ At(fn, "loop")
    /\ Top.entries = <<>>
    /\ Return(Top, "ok")
    /\ UNCHANGED staged
    /\ TreeUnchanged

\* a step of a call of one of the three copies, or the return of a call
NextTree ==
    \/ \E fn \in CopyFns : TreeCopy_Start(fn)
    \/ \E fn \in CopyFns : TreeCopy_Entry(fn)
    \/ \E fn \in CopyFns : TreeCopy_AfterCall(fn)
    \/ \E fn \in CopyFns : TreeCopy_Done(fn)
    \/ PopFrame

SpecTree == InitTree /\ [][NextTree]_vars

\* a running copy keeps taking steps
SpecTreeFair == SpecTree /\ WF_vars(NextTree)

----------------------------------------------------------------------------
(* The safe hard-link variant on its own, from staging to the removal of   *)
(* its staging area, over content lists with unique base names, among them *)
(* names the build uses itself                                             *)

MaxSafeItems == 2

\* a symbolic-link item whose target is a source directory named .background
BgLink == [Type |-> Link, Path |-> <<<<"src">>, <<".background">>>>, present |-> TRUE,
           bytes |-> 300, len |-> 15]

\* a directory item named .background
BgDir  == [Type |-> Dir, Path |-> <<<<"art">>, <<".background">>>>, present |-> TRUE,
           bytes |-> 300, len |-> 15]

SafeItemChoices == {AppItem, AppsLink, ReadmeItem, MissingItem, BgLink, BgDir}

SafeContentLists ==
    {l \in UNION {[1..n -> SafeItemChoices] : n \in 0..MaxSafeItems} :
        \A j, k \in DOMAIN l : j # k => DestName(l[j]) # DestName(l[k])}

SafeConfigs ==
    [FileName : {[dir |-> <<>>, name |-> <<"out", ".dmg">>]}, Title : {<<"T">>},
     Icon : {FALSE}, Background : BOOLEAN, Format : {UDRO},
     CompressionLevel : {""}, UseHardLinks : {TRUE},
     OptimizeAppSize : {FALSE}, Contents : SafeContentLists,
     BackgroundBytes : {4096}, StoreBytes : {6148}]

InitSafe == \E c \in SafeConfigs : InitWith("createDMGWithSafeHardLinks", c)

NextSafe ==
    \/ createDMGWithSafeHardLinks_Start \/ createDMGWithSafeHardLinks_StageItem
    \/ createDMGWithSafeHardLinks_WriteStore \/ createDMGWithSafeHardLinks_Background
    \/ createDMGWithSafeHardLinks_Size \/ createDMGWithSafeHardLinks_Create
    \/ createDMGWithSafeHardLinks_FileIcon
    \/ Deferred_RemoveAll \/ PopFrame

SpecSafe == InitSafe /\ [][NextSafe]_vars

----------------------------------------------------------------------------
(* The exact-size build in a directory that already holds files of the     *)
(* caller                                                                  *)

\* a file that is on disk before the build starts
ForeignFile == [ImageRec(UDRO, "foreign", {<<"old">>}) EXCEPT !.title = <<"Old">>]

\* where such a file lies: at the name of the intermediate image, at another
\* name next to the output, in another directory
ForeignPaths ==
    {[dir |-> <<>>, name |-> <<"temp_", "out", ".dmg">>],
     [dir |-> <<>>, name |-> <<"old", ".dmg">>],
     [dir |-> <<"Volumes", "Ext">>, name |-> <<"temp_", "out", ".dmg">>]}

ForeignConfigs == {c \in BashConfigs : Len(c.Contents) <= 1 /\ c.CompressionLevel = ""}

InitForeign ==
    \E c \in ForeignConfigs : \E p \in ForeignPaths :
        /\ entry = "CreateDMGLikeBash"
        /\ cfg = c
        /\ orig = c
        /\ stack = <<EntryFrame("CreateDMGLikeBash")>>
        /\ mode = "run"
        /\ ret = "none"
        /\ result = "running"
        /\ images = (p :> ForeignFile)
        /\ dirs = {}
        /\ staged = <<>>
        /\ mounts = {}
        /\ stageDir = NoDir
        /\ nextTmp = 1
        /\ trace = <<>>
        /\ other = NoBuild

SpecForeign == InitForeign /\ [][NextBash]_vars

----------------------------------------------------------------------------
(* Properties                                                              *)

\* the index of the last event before i with operation op, 0 if there is none
LastIdx(i, op) ==
    LET S == {j \in 1..(i - 1) : trace[j].op = op}
    IN  IF S = {} THEN 0 ELSE CHOOSE j \in S : \A k \in S : k <= j

\* the events of the tmpMount invocation that ends with event i
Window(i) == (LastIdx(i, "tmpMount.MkdirTemp") + 1)..(i - 1)

\* event i is tmpMount giving control back: a return, or a panic leaving it
TmpMountEnds(i) == trace[i].fn = "tmpMount" /\ trace[i].op \in {"return", "unwound"}

AttachedIn(W) == \E j \in W : trace[j].op = "Attach" /\ trace[j].ok

Count(W, op) == Cardinality({j \in W : trace[j].op = op})

\* C1: in tmpMount, once Attach has succeeded, the primary Detach is attempted
\* exactly once before control goes back to the caller, whether the callback
\* returned nil, returned an error or panicked
C1_DetachExactlyOnce ==
    \A i \in DOMAIN trace :
        (TmpMountEnds(i) /\ AttachedIn(Window(i))) => Count(Window(i), "Detach") = 1

\* a tmpMount invocation that attached and was left by a panic of the callback
C1_Witness ==
    \E i \in DOMAIN trace :
        /\ trace[i].fn = "tmpMount" /\ trace[i].op = "unwound"
        /\ AttachedIn(Window(i))
        /\ Count(Window(i), "process.panic") = 1

InTmpMount == \E k \in DOMAIN stack : stack[k].fn = "tmpMount"

\* C2: after any tmpMount invocation has returned, the image is attached nowhere
\* and no mount-point directory is left on disk
C2_NothingLeftAfterTmpMount ==
    ~InTmpMount => (mounts = {} /\ \A d \in dirs : d.role # "mount")

\* C3: whenever Attach succeeded, tmpMount returns exactly what the callback
\* returned, whatever the primary and the forced detach did
C3_ReturnsCallbackResult ==
    \A i \in DOMAIN trace :
        (trace[i].fn = "tmpMount" /\ trace[i].op = "return" /\ AttachedIn(Window(i)))
        => /\ Count(Window(i), "process") = 1
           /\ \A j \in Window(i) : trace[j].op = "process" => trace[i].ok = trace[j].ok

\* tmpMount returned after a failed callback, a failed primary detach and a
\* forced detach
C3_Witness ==
    \E i \in DOMAIN trace :
        /\ trace[i].fn = "tmpMount" /\ trace[i].op = "return" /\ ~trace[i].ok
        /\ \E j \in Window(i) : trace[j].op = "process" /\ ~trace[j].ok
        /\ \E j \in Window(i) : trace[j].op = "Detach" /\ ~trace[j].ok
        /\ Count(Window(i), "forceDetachDMG") = 1

\* the steps that customize a mounted volume
CustomOps == {"setDMGIcon", "background", "store", "symlink"}

\* event i is a failed Attach of the writable image of a compressed build
CompressedAttachFailed(i) ==
    trace[i].op = "Attach" /\ ~trace[i].ok /\ trace[i].fn \in CompressedFns

FinalImages == {p \in DOMAIN images : images[p].role = "final"}

\* C4: in a compressed build, a failed Attach of the writable image is followed by
\* no customization step and no convert, no final image is created, and the build
\* returns an error
C4_AttachFailureAborts ==
    \A i \in DOMAIN trace :
        CompressedAttachFailed(i) =>
            /\ \A j \in (i + 1)..Len(trace) : trace[j].op \notin CustomOps \cup {"convert"}
            /\ FinalImages = {}
            /\ Finished => result = "err"

\* a compressed build that ended after its Attach failed
C4_Witness ==
    Finished /\ \E i \in DOMAIN trace : CompressedAttachFailed(i)

\* C5: when a build returns, no writable intermediate image it created is left
C5_NoIntermediateImageLeft ==
    Finished => \A p \in DOMAIN images : images[p].role # "inter"

StagingRoles == {"direct", "safe", "work"}

\* C6: when the build has ended, with or without an error, the staging directory
\* (the temporary directory of CreateDMGDirect and of createDMGWithSafeHardLinks,
\* the working directory of the dmg command) is gone with everything in it
C6_StagingAreaRemoved ==
    Finished => /\ \A d \in dirs : d.role \notin StagingRoles
                /\ stageDir.role \in StagingRoles => staged = <<>>

\* a build that staged something, failed later, and has ended
C6_Witness ==
    /\ Finished
    /\ result = "err"
    /\ stageDir.role \in StagingRoles
    /\ \E i \in DOMAIN trace : trace[i].op = "stage" /\ trace[i].ok

\* C7: when the dmg command returns, none of the temporary directories it created
\* (working, generated icon, mount point, setFileIcon scratch) is left
C7_NoTempDirLeft ==
    (entry = "Action" /\ Finished) => dirs = {}

\* the steps whose failure a build must report
FatalOps == {"stage", "stage.background", "Create", "Attach", "setDMGIcon", "store",
             "store.Write", "convert"}

\* C8: a build that returns success has had no failing staging, create, attach,
\* volume-icon, layout-metadata or convert step
C8_ErrorsSurface ==
    (Finished /\ result = "ok") =>
        \A i \in DOMAIN trace : ~trace[i].ok => trace[i].op \notin FatalOps

\* control is at a step that creates an image file
CreatingImage ==
    \E k \in DOMAIN stack :
        stack[k].pc \in {"create", "convert"} \/ stack[k].fn \in CompressedFns

\* C9: whenever a build creates an image, the output file name ends in ".dmg"
\* (Title + ".dmg" if none was given) and an unset format has become UDZO
C9_NameAndFormatDefaulted ==
    CreatingImage =>
        /\ HasSuffix(cfg.FileName.name, ".dmg")
        /\ orig.FileName = NoPath =>
               cfg.FileName = [dir |-> <<>>, name |-> cfg.Title \o <<".dmg">>]
        /\ orig.Format = "" => (entry = "CreateDMGLikeBash" \/ cfg.Format = UDZO)

\* the loop over config.Contents of the staging function has succeeded
StagingSucceeded ==
    \/ /\ entry \in {"setupSourceDirectory", "createSymbolicLinks"}
       /\ Finished /\ result = "ok"
    \/ /\ entry = "createDMGWithSafeHardLinks"
       /\ At("createDMGWithSafeHardLinks", "store")

DistinctBaseNames(items) ==
    \A a, b \in DOMAIN items : a # b => DestName(items[a]) # DestName(items[b])

\* the staged entries that are not the background directory
ItemEntries == DOMAIN staged \ {<<".background">>}

\* C10: for items with pairwise distinct base names, successful staging leaves
\* exactly one entry per item, named by the item's base name, under direct copy,
\* safe hard-link and symlink-direct
C10_OneEntryPerItem ==
    (StagingSucceeded /\ DistinctBaseNames(cfg.Contents)) =>
        /\ ItemEntries = {DestName(cfg.Contents[k]) : k \in DOMAIN cfg.Contents}
        /\ Cardinality(ItemEntries) = Len(cfg.Contents)

\* a successful staging of MaxItems items of distinct base names
C10_Witness ==
    /\ StagingSucceeded
    /\ DistinctBaseNames(cfg.Contents)
    /\ Len(cfg.Contents) = MaxItems
    /\ \E k \in DOMAIN cfg.Contents : cfg.Contents[k].Type = Link

\* the staging function of the top frame places File items by hard link
HardLinkStaging ==
    /\ mode = "run"
    /\ stack # <<>>
    /\ Top.pc = "stage"
    /\ \/ Top.fn = "createDMGWithSafeHardLinks"
       \/ Top.fn = "setupSourceDirectory" /\ cfg.UseHardLinks

\* the loop of a hard-link staging is about to place a File item
LinkingFile ==
    /\ HardLinkStaging
    /\ Top.i <= Len(cfg.Contents)
    /\ cfg.Contents[Top.i].Type = File

\* the operations of a sequence of events
OpsOf(evs) == [k \in DOMAIN evs |-> <<evs[k].op, evs[k].ok>>]

BytesOfItems(T) ==
    LET f == [k \in DOMAIN cfg.Contents |->
                 [bytes |-> IF cfg.Contents[k].present /\ cfg.Contents[k].Type \in T
                            THEN cfg.Contents[k].bytes ELSE 0]]
    IN  TotalSize(f, DOMAIN f)

\* S: the bytes in the files of every File and Dir item of the content
ContentBytes == BytesOfItems({File, Dir})

\* the bytes below the directory items, which is what the size loop walks
WalkedBytes == BytesOfItems({Dir})

\* the whole MiB in b bytes, rounded down and rounded up
FloorMiB(b) == CHOOSE q \in 0..(MaxTotalMiB + 1) : q * MiB <= b /\ b < (q + 1) * MiB
CeilMiB(b)  == IF FloorMiB(b) * MiB = b THEN FloorMiB(b) ELSE FloorMiB(b) + 1

Clamp(x, lo, hi) == IF x < lo THEN lo ELSE IF x > hi THEN hi ELSE x

\* x is mb MiB plus pct percent, rounded either way
PlusPercent(x, mb, pct) == 100 * (x - 1) < mb * (100 + pct) /\ mb * (100 + pct) < 100 * (x + 1)

\* the writable image CreateDMGLikeBash created, if it did
BashImages == {p \in DOMAIN images : entry = "CreateDMGLikeBash" /\ images[p].role = "inter"}

\* C12 as stated: the size CreateDMGLikeBash creates its image with is
\* clamp(ceil(S / 1 MiB) x 1.5, 200, 2000) for the S bytes of the content's files
C12_CeilClamp ==
    \A p \in BashImages :
        LET c == CeilMiB(ContentBytes) IN
        \E x \in c..(2 * c) :
            /\ PlusPercent(x, c, 50)
            /\ images[p].sizeMB = Clamp(x, 200, 2000)

\* C12, amended: the size CreateDMGLikeBash creates its image with is
\* clamp(q + floor(q / 2), 200, 2000), where q = floor(S / 1 MiB) and S is the
\* bytes in the non-directory entries below the Dir items of the content
C12_FloorClamp ==
    \A p \in BashImages :
        LET q == FloorMiB(WalkedBytes) IN
        /\ images[p].sizeMB \in 200..2000
        /\ \E x \in 0..q :
              /\ 2 * x <= q
              /\ q < 2 * x + 2
              /\ images[p].sizeMB = Clamp(q + x, 200, 2000)

\* an image sized between floor and ceiling from content that is no whole
\* number of MiB and holds a File item
C12_Witness ==
    \E p \in BashImages :
        /\ images[p].sizeMB > 200
        /\ images[p].sizeMB < 2000
        /\ FloorMiB(WalkedBytes) # CeilMiB(WalkedBytes)
        /\ \E k \in DOMAIN cfg.Contents : cfg.Contents[k].Type = File

\* calculateDirSize has returned and the result is held by the caller
SizeReturned ==
    /\ mode = "run"
    /\ stack # <<>>
    /\ Top.fn = "createDMGWithSafeHardLinks"
    /\ Top.pc = "create"

\* the bytes of the staged entries of the kinds in K
StagedBytes(K) ==
    LET f == [x \in DOMAIN staged |->
                 [bytes |-> IF staged[x].kind \in K THEN staged[x].bytes ELSE 0]]
    IN  TotalSize(f, DOMAIN f)

\* C13 as stated: calculateDirSize returns max(ceil(S / 1 MiB) x 1.2, 100) for
\* the S bytes of the regular files of the staged tree
C13_CeilMax ==
    SizeReturned =>
        LET c == CeilMiB(StagedBytes({"file", "hardlink", "dir"})) IN
        \E x \in c..(2 * c) :
            /\ PlusPercent(x, c, 20)
            /\ Top.size = (IF x < 100 THEN 100 ELSE x)

\* C13, amended: calculateDirSize returns max(q + floor(q / 5), 100), without an
\* upper bound, where q = floor(S / 1 MiB) and S is the bytes of all entries of
\* the staged tree that are not directories, a symbolic link counting the
\* length of its target path
C13_FloorMax ==
    SizeReturned =>
        LET q == FloorMiB(StagedBytes({"file", "hardlink", "dir", "symlink"})) IN
        \E x \in 0..q :
            /\ 5 * x <= q
            /\ q < 5 * x + 5
            /\ Top.size = (IF q + x < 100 THEN 100 ELSE q + x)

\* an estimate above the other policy's ceiling, from a tree holding a symbolic link
C13_Witness ==
    /\ SizeReturned
    /\ Top.size > 2000
    /\ \E x \in DOMAIN staged : staged[x].kind = "symlink"

\* smartCopyDir has returned nil
CopyReturnedNil == entry = "smartCopyDir" /\ result = "ok"

\* the path has a component that matches an exclusion pattern
HasExcluded(p) == \E k \in DOMAIN p : shouldExclude(p[k])

\* C14: the destination smartCopyDir produced holds no entry, at any depth,
\* with an excluded name, and holds every file and directory of the source that
\* is not excluded and has no excluded ancestor
C14_ExactlyTheUnexcluded ==
    CopyReturnedNil =>
        /\ \A p \in DOMAIN staged : ~HasExcluded(p)
        /\ \A n \in cfg.Tree : ~HasExcluded(n.p) => n.p \in DOMAIN staged

\* a build from a staging area into a compressed format has returned success
CompressedBuildSucceeded ==
    /\ Finished
    /\ result = "ok"
    /\ entry \in {"Action", "CreateDMG", "CreateDMGDirect"}
    /\ IsCompressed(cfg.Format)

ItemNames == {DestName(cfg.Contents[k]) : k \in DOMAIN cfg.Contents}

\* C15 as stated: the root of the final volume of a successful compressed
\* build holds the item names, the layout-metadata file, the background
\* subdirectory iff a background is configured, and nothing else
C15_RootIsItemsAndMetadata ==
    CompressedBuildSucceeded =>
        /\ cfg.FileName \in DOMAIN images
        /\ images[cfg.FileName].root =
               ItemNames \cup {<<".DS_Store">>}
                         \cup (IF cfg.Background THEN {<<".background">>} ELSE {})

\* C15, amended: the root of the final volume of a successful compressed build
\* holds the item names, the layout-metadata file, the background subdirectory
\* iff a background is configured, the volume icon file iff an icon is
\* configured, and nothing else
C15_RootIsItemsMetadataAndIcon ==
    CompressedBuildSucceeded =>
        /\ cfg.FileName \in DOMAIN images
        /\ images[cfg.FileName].root =
               ItemNames \cup {<<".DS_Store">>}
                         \cup (IF cfg.Background THEN {<<".background">>} ELSE {})
                         \cup (IF cfg.Icon THEN {<<".VolumeIcon.icns">>} ELSE {})

\* a successful compressed build with an icon and without a background
C15_Witness ==
    /\ CompressedBuildSucceeded
    /\ cfg.Icon
    /\ ~cfg.Background
    /\ cfg.UseHardLinks
    /\ <<".VolumeIcon.icns">> \in images[cfg.FileName].root

\* C16: under direct copy, safe hard-link and symlink-direct staging, the
\* staging does not succeed when the source path of a File or Dir item does
\* not exist
C16_MissingSourceFails ==
    StagingSucceeded =>
        \A k \in DOMAIN cfg.Contents :
            cfg.Contents[k].Type \in {File, Dir} => cfg.Contents[k].present

\* the steps that run an external tool: hdiutil create, attach, detach, info
\* and convert, SetFile / Rez / DeRez for the icons, codesign and notarytool
ToolOps == {"Create", "Attach", "Detach", "forceDetachDMG", "convert", "setDMGIcon",
            "setFileIcon", "RunSignCmd", "RunNotarizeCmd"}

\* a content item's source path is missing, or the build could not create its
\* working, source or staging directory
SetupError ==
    \/ \E k \in DOMAIN cfg.Contents :
          cfg.Contents[k].Type \in {File, Dir} /\ ~cfg.Contents[k].present
    \/ \E i \in DOMAIN trace : /\ trace[i].op \in {"MkdirTemp", "MkdirAll"}
                                 /\ ~trace[i].ok
                                 /\ trace[i].fn # "setFileIcon"

\* C17: in every build variant a setup error ends the build with an error, and
\* no external tool is invoked in a build with a setup error
C17_SetupErrorBeforeTools ==
    SetupError =>
        /\ \A i \in DOMAIN trace : trace[i].op \notin ToolOps
        /\ Finished => result # "ok"

\* the staging function named fn has copied the background
BackgroundStagedBy(fn) ==
    \E i \in DOMAIN trace :
        trace[i].op = "stage.background" /\ trace[i].ok /\ trace[i].fn = fn

StagingFns == {"setupSourceDirectory", "createSymbolicLinks", "createDMGWithSafeHardLinks"}

\* C19: under direct copy, symlink-direct and safe hard-link staging, a staged
\* background is, for as long as the staging area exists, a file of its own
\* inside .background, written by copying, never a hard link or a symbolic
\* link to the asset; and no image is created from a staging area that lacks a
\* configured background
C19_BackgroundIsCopy ==
    /\ \A fn \in StagingFns :
          (BackgroundStagedBy(fn) /\ stageDir \in dirs) =>
              /\ <<".background">> \in DOMAIN staged
              /\ staged[<<".background">>].kind = "dir"
              /\ staged[<<".background">>].inside = "copy"
              /\ staged[<<".background">>].ino = NoIno
    /\ (cfg.Background /\ entry # "CreateDMGLikeBash"
           /\ \E i \in DOMAIN trace : trace[i].op = "Create") =>
          \E fn \in StagingFns : BackgroundStagedBy(fn)

\* symlink-direct staging has linked every item and copied the background
C19_Witness ==
    /\ BackgroundStagedBy("createSymbolicLinks")
    /\ \E n \in DOMAIN staged : staged[n].kind = "symlink"
    /\ staged[<<".background">>].inside = "copy"

\* what the layout-metadata file has to record: window size, icon size, label
\* size and one position per content item
RequiredSettings ==
    {<<"window", <<>>>>, <<"iconSize", <<>>>>, <<"labelSize", <<>>>>} \cup
    {<<"pos", DestName(cfg.Contents[k])>> : k \in DOMAIN cfg.Contents}

\* C20: when a build has returned success, the image at the output path holds
\* at its root a layout-metadata file that records window size, icon size,
\* label size and a position for every content item, in every variant and
\* with or without icon and background
C20_LayoutMetadataWritten ==
    (Finished /\ result = "ok") =>
        /\ cfg.FileName \in DOMAIN images
        /\ <<".DS_Store">> \in images[cfg.FileName].root
        /\ RequiredSettings \subseteq images[cfg.FileName].store

\* a successful build without icon and background whose image records the
\* positions of two items
C20_Witness ==
    /\ Finished
    /\ result = "ok"
    /\ ~cfg.Icon
    /\ ~cfg.Background
    /\ Len(cfg.Contents) = 2
    /\ cfg.FileName \in DOMAIN images
    /\ RequiredSettings \subseteq images[cfg.FileName].store

\* the step is taken by the running build, the other build waits
OwnStep == other.mode # "done" /\ other' = other

\* the image files that carry the volume name of the waiting build
FilesOfOther == {p \in DOMAIN images : images[p].title = other.cfg.Title}

\* the directories the waiting build has created and not yet removed
DirsOfOther == {other.stack[k].dir : k \in DOMAIN other.stack} \cap dirs

\* C18: of two builds with different output files, no step of one removes or
\* overwrites an image file of the other, removes a directory of the other,
\* or detaches a volume of an image of the other
C18_NoInterference ==
    [][OwnStep =>
        /\ \A p \in FilesOfOther : p \in DOMAIN images' /\ images'[p] = images[p]
        /\ DirsOfOther \subseteq dirs'
        /\ \A m \in mounts : m.img \in FilesOfOther => m \in mounts']_vars

\* the events of setFileIcon
IconEvents == {i \in DOMAIN trace : trace[i].fn = "setFileIcon"}

\* a sub-step of setFileIcon has failed
IconFailed ==
    \E i \in IconEvents : trace[i].op \in {"MkdirTemp", "setFileIcon"} /\ ~trace[i].ok

\* the build function the entry point runs
BuildFn == IF entry = "Action" THEN "CreateDMG" ELSE entry

\* the events at which the build function has returned to its caller
BuildReturns == {i \in DOMAIN trace : trace[i].op = "return" /\ trace[i].fn = BuildFn}

\* what may follow setFileIcon: returns, deferred removals, and the command's
\* signing and notarization of the finished image
AfterIconOps == {"return", "Remove", "RemoveAll", "RunSignCmd", "RunNotarizeCmd"}

\* a write to config.LogWriter that reports a failure
WarningOps == {"Warning"}

\* setFileIcon runs only with an icon configured, on a final image that exists,
\* and nothing but cleanup follows it; when it fails the build returns nil and
\* the image stays
FileIconLastAndHarmless ==
    /\ IconEvents # {} => cfg.Icon /\ cfg.FileName \in DOMAIN images
    /\ \A i \in IconEvents : \A j \in DOMAIN trace :
          j > i => trace[j].fn = "setFileIcon" \/ trace[j].op \in AfterIconOps
    /\ IconFailed => \A i \in BuildReturns : trace[i].ok

\* C21: in every variant setFileIcon runs only as the last step, on the final
\* image and only when an icon is configured; when one of its sub-steps fails
\* the failure is reported and the build still returns success, the final image
\* left in place
C21_FileIconFailureReported ==
    /\ FileIconLastAndHarmless
    /\ (IconFailed /\ BuildReturns # {}) =>
          \E i \in IconEvents : \E j \in DOMAIN trace :
              j > i /\ trace[j].op \in WarningOps

\* the build was started through CreateDMG with optimize-app-size set
OptimizingBuild == BuildFn = "CreateDMG" /\ cfg.OptimizeAppSize

\* C22: with optimize-app-size set, a build started through CreateDMG has run
\* optimizeAppBundle on every .app directory item before it stages any item,
\* and a failed optimization is followed by a warning and by no error return
C22_OptimizeBeforeStaging ==
    OptimizingBuild =>
        /\ \A i \in DOMAIN trace :
              trace[i].op = "stage" =>
                  Count(1..(i - 1), "optimizeAppBundle") = Len(AppItems(cfg))
        /\ \A i \in DOMAIN trace :
              (trace[i].op = "optimizeAppBundle" /\ ~trace[i].ok) =>
                  /\ \E j \in DOMAIN trace : j > i /\ trace[j].op \in WarningOps
                  /\ \A j \in DOMAIN trace :
                        (j > i /\ trace[j].fn = "setupSourceDirectory") => trace[j].op # "return" \/ trace[j].ok

\* the successful attaches and the failed primary detaches of the build
Attaches == {i \in DOMAIN trace : trace[i].op = "Attach" /\ trace[i].ok}
DetachFailures == {i \in DOMAIN trace : trace[i].op = "Detach" /\ ~trace[i].ok}

\* C23 as stated: in a build that mounted one image and whose primary Detach
\* failed, forceDetachDMG has run exactly once when the build ends
C23_ForcedDetachOncePerBuild ==
    (Finished /\ Cardinality(Attaches) = 1 /\ DetachFailures # {}) =>
        Count(DOMAIN trace, "forceDetachDMG") = 1

\* C23: for one mount whose primary Detach fails, tmpMount attempts the forced
\* detach exactly once (and not at all when the primary Detach succeeds); the
\* only other forceDetachDMG of a build is the pass of a compressed variant
\* before convert, so a build with one mount runs it at most twice; tmpMount
\* still returns what the callback returned
C23_ForcedDetachOncePerMount ==
    /\ \A i \in DOMAIN trace :
          (TmpMountEnds(i) /\ AttachedIn(Window(i))) =>
              Count(Window(i), "forceDetachDMG") = Cardinality(DetachFailures \cap Window(i))
    /\ \A j \in DOMAIN trace :
          trace[j].op = "forceDetachDMG" =>
              /\ j > 1
              /\ \/ (j - 1) \in DetachFailures
                 \/ trace[j].fn \in CompressedFns /\ trace[j - 1].op # "forceDetachDMG"
    /\ (Cardinality(Attaches) = 1 /\ DetachFailures # {}) =>
          Count(DOMAIN trace, "forceDetachDMG") \in {1, 2}
    /\ \A i \in DOMAIN trace :
          (/\ trace[i].fn = "tmpMount" /\ trace[i].op = "return"
           /\ DetachFailures \cap Window(i) # {}
           /\ \E j \in Window(i) : trace[j].op = "process" /\ trace[j].ok)
          => trace[i].ok

\* a compressed build with one mount: the primary Detach failed, tmpMount's
\* forced detach left the image attached and tmpMount returned nil, and the
\* pass before convert ran forceDetachDMG a second time
C23_Witness ==
    /\ Cardinality(Attaches) = 1
    /\ Cardinality(DetachFailures) = 1
    /\ Count(DOMAIN trace, "forceDetachDMG") = 2
    /\ \E i \in DOMAIN trace :
          /\ trace[i].fn = "tmpMount" /\ trace[i].op = "return" /\ trace[i].ok
          /\ DetachFailures \cap Window(i) # {}
    /\ mounts # {}

\* the convert events of the compressed variants
CompressedConverts ==
    {i \in DOMAIN trace : trace[i].op = "convert" /\ trace[i].fn \in CompressedFns}

\* the order of the steps before convert event i of a compressed variant:
\* create, then with an icon or a background attach, callback and detach, then
\* the force-detach pass right before convert; no failed callback before it
CompressedOrderAt(i) ==
    /\ \E j \in 1..(i - 1) : trace[j].op = "Create" /\ trace[j].ok
    /\ i > 1 /\ trace[i - 1].op = "forceDetachDMG"
    /\ \A j \in 1..(i - 1) : trace[j].op # "process.panic" /\ (trace[j].op = "process" => trace[j].ok)
    /\ IF cfg.Icon \/ cfg.Background
       THEN LET d == LastIdx(i, "Detach")
                c == LastIdx(d, "process")
                b == LastIdx(c, "Attach")
                a == LastIdx(b, "Create")
            IN  /\ a > 0 /\ trace[a].ok
                /\ trace[b].ok
                /\ trace[c].ok
       ELSE \A j \in 1..(i - 1) : trace[j].op # "Attach"

\* a compressed variant is about to invoke hdiutil convert
AtCompressedConvert == \E fn \in CompressedFns : At(fn, "convert")

\* the order of the compressed variant and the removal of the intermediate image
CompressedOrder ==
    /\ \A i \in CompressedConverts : CompressedOrderAt(i)
    /\ (Finished /\ CompressedConverts # {}) =>
          \A p \in DOMAIN images : images[p].role # "inter"

\* C24: in the compressed variant the steps run in the order create, attach /
\* customize / detach (with an icon or a background), force-detach pass,
\* convert; convert is never invoked while the intermediate image is attached
\* nor after a failed customization; the intermediate image is removed after
\* convert whatever convert returned
C24_CompressedOrder ==
    /\ CompressedOrder
    /\ AtCompressedConvert => \A m \in mounts : m.img # Top.img

\* a build through CreateDMG or CreateDMGDirect with the writable format UDRW
WritableRequested == cfg.Format = UDRW /\ BuildFn \in {"CreateDMG", "CreateDMGDirect"}

\* the build takes the safe hard-link path, which has its own create step
SafePath == BuildFn = "CreateDMG" /\ cfg.UseHardLinks

\* the convert events of the standard variant
StdConverts ==
    {i \in DOMAIN trace : trace[i].op = "convert" /\ trace[i].fn \in {"CreateDMG", "CreateDMGDirect"}}

\* what the standard variant does with UDRW: create, rename, convert in this
\* order; once the build has returned the temporary file is gone, a build that
\* returned nil left a read-only image at the output path, and a failed
\* convert made the build return an error
StdReadOnly ==
    /\ \A i \in StdConverts :
          LET r == LastIdx(i, "Rename")
              c == LastIdx(r, "Create")
          IN  c > 0 /\ trace[c].ok /\ trace[r].ok
    /\ BuildReturns # {} =>
          /\ TempName(cfg.FileName) \notin DOMAIN images
          /\ (\A i \in BuildReturns : trace[i].ok) =>
                /\ cfg.FileName \in DOMAIN images
                /\ images[cfg.FileName].fmt = UDRO
                /\ StdConverts # {}
          /\ (\E i \in StdConverts : ~trace[i].ok) => \A i \in BuildReturns : ~trace[i].ok

AttachedImages == {m.img : m \in mounts} \cap DOMAIN images

\* C26: during any build the only image file attached as a volume is the
\* writable intermediate image; the final image is never attached (and so
\* never written through a mount)
C26_OnlyIntermediateAttached ==
    \A p \in AttachedImages : images[p].role = "inter" /\ images[p].fmt = UDRW

\* the staging strategy behind staging event i: the staging function that ran
\* and, in setupSourceDirectory, the branch config.UseHardLinks selects
StrategyOf(i) ==
    CASE trace[i].fn = "createSymbolicLinks"        -> "symlink-direct"
      [] trace[i].fn = "createDMGWithSafeHardLinks" -> "safe hard-link"
      [] trace[i].fn = "setupSourceDirectory" ->
            IF cfg.UseHardLinks THEN "hard-link copy" ELSE "direct copy"
      [] OTHER -> "none"

StageEvents == {i \in DOMAIN trace : trace[i].op = "stage"}

\* no build started at a public entry point stages with the hard-link copy
HardLinkCopyNeverSelected == \A i \in StageEvents : StrategyOf(i) # "hard-link copy"

\* C27: each of the four staging strategies is selected by a configuration of
\* a public entry point; use-hard-links is the one setting that leads to the
\* hard-link copy of directory trees (copyDirWithHardLinks), so a build with
\* use-hard-links set that does not stage by symbolic links stages with it
C27_HardLinkCopySelected ==
    \A i \in StageEvents :
        (cfg.UseHardLinks /\ StrategyOf(i) # "symlink-direct") =>
            StrategyOf(i) = "hard-link copy"

\* the image forceDetachDMG is about to be run for, if the primary detach of
\* tmpMount's closure fails or a compressed variant reaches its pass
ForcePending ==
    IF Unwinding /\ Top.defers # <<>> /\ NextDefer.op = "Detach" THEN {NextDefer.img}
    ELSE IF \E fn \in CompressedFns : At(fn, "force") /\ ~AbortOnMountError(ret) THEN {Top.img}
    ELSE {}

\* the mount points of the volumes mounted from image file p
VolumesOf(p) == {LocTarget(m.mp) : m \in {x \in mounts : x.img = p}}

\* C28: when forceDetachDMG runs for an image file, its secondary Detach calls
\* are issued for exactly the volumes mounted from that image file, the one
\* tmpMount attached at its temporary mount point included
C28_ForceDetachTargets ==
    \A p \in ForcePending : ForceTargets(mounts, p) = VolumesOf(p)

\* C29: CreateDMGLikeBash with no Dir item ending in ".app" returns an error
\* and creates no image; otherwise every image it creates comes from the first
\* such item, convert runs only after the Applications link was added in the
\* mounted volume, and the final image holds that link and was converted with
\* the configured compression level, with level 9 when none is configured
C29_ExactSizeBuild ==
    LET apps == {k \in DOMAIN cfg.Contents :
                    /\ cfg.Contents[k].Type = Dir
                    /\ HasSuffix(Base(cfg.Contents[k].Path), ".app")}
    IN  IF apps = {}
        THEN /\ DOMAIN images = {}
             /\ \A i \in DOMAIN trace : trace[i].op \notin {"Create", "Attach", "convert"}
             /\ Finished => result = "err"
        ELSE LET first == CHOOSE k \in apps : \A j \in apps : k <= j IN
             /\ \A p \in DOMAIN images : images[p].from = cfg.Contents[first].Path
             /\ \A i \in DOMAIN trace :
                   trace[i].op = "convert" =>
                       \E j \in 1..(i - 1) : trace[j].op = "symlink" /\ trace[j].ok
             /\ \A p \in DOMAIN images :
                   images[p].role = "final" =>
                       /\ <<"Applications">> \in images[p].root
                       /\ images[p].fmt = UDZO
                       /\ images[p].level = IF orig.CompressionLevel = "" THEN "9"
                                            ELSE orig.CompressionLevel

\* a finished build with no compression level configured whose first bundle is
\* the second content item
C29_Witness ==
    /\ entry = "CreateDMGLikeBash" /\ Finished /\ result = "ok"
    /\ orig.CompressionLevel = ""
    /\ Len(cfg.Contents) = 2 /\ cfg.Contents[1] = AppFile /\ cfg.Contents[2] = App2Item
    /\ cfg.FileName \in DOMAIN images /\ images[cfg.FileName].level = "9"

\* the store of a build whose position loop is over
PositionsSet == stack # <<>> /\ Top.fn = "CreateDMG" /\ Top.pc = "store"

\* the position the store holds under the base name of item, read as integers,
\* is the item's (X, Y)
RecordedAsConfigured(item) ==
    \E p \in PosStore :
        /\ p[1] = "pos"
        /\ p[2][1] = DestName(item)
        /\ SameInteger(p[2][2], item.X)
        /\ SameInteger(p[2][3], item.Y)

\* items without a negative coordinate are recorded at their configured
\* position
NonNegativeRecordedAsConfigured ==
    PositionsSet =>
        \A k \in DOMAIN cfg.Contents :
            (cfg.Contents[k].X >= 0 /\ cfg.Contents[k].Y >= 0)
                => RecordedAsConfigured(cfg.Contents[k])

\* C30: for every content item the position recorded in the layout metadata
\* under the item's base name equals the item's configured (x, y) as
\* integers, also for the two positions the dmg command computes from any
\* accepted window width, window height, label size and contents icon size
C30_PositionsAsConfigured ==
    PositionsSet =>
        \A k \in DOMAIN cfg.Contents : RecordedAsConfigured(cfg.Contents[k])

\* copyDir(src, dst) has returned nil
CopyDirReturnedNil == entry = "copyDir" /\ Finished /\ result = "ok"

\* the relative paths of the source, the root included
SourcePaths == {<<>>} \cup {e.p : e \in cfg.Tree}

\* the destination holds the relative paths of the source and no others, and
\* every file of the source with its content
SameTree ==
    /\ DOMAIN staged = SourcePaths
    /\ \A e \in cfg.Tree : e.kind = "file" =>
           /\ staged[e.p].kind = "file"
           /\ staged[e.p].data = Content(e.p, 1)

\* a source tree without symbolic links is copied as it is
CopyDirFaithfulWithoutLinks ==
    (CopyDirReturnedNil /\ \A e \in cfg.Tree : e.kind # "link") => SameTree

\* C31: when copyDir returns success the destination holds exactly the
\* relative paths of the source and every file with the content of its source
\* file; no source entry is left out
C31_CopyDirFaithful == CopyDirReturnedNil => SameTree

\* the nesting of the copy calls stays below the depth the copies are run to
StackBelowCap == Len(stack) < MaxStack

\* C35: a directory copy by copyDir, smartCopyDir or copyDirWithHardLinks
\* terminates on every finite source tree, also when the tree holds a
\* symbolic link to one of its own ancestor directories
C35_CopyTerminates == <>Finished

\* a copy of a tree with a link to the root has ended after it went through
\* the link
C35_Witness ==
    /\ Finished
    /\ TreeEntry(<<<<"lib">>, <<"sub">>>>, "link", <<>>) \in cfg.Tree
    /\ <<<<"lib">>, <<"sub">>, <<"lib">>>> \in DOMAIN staged

\* the safe hard-link variant has staged its content
SafeStagingDone ==
    /\ stack # <<>>
    /\ Top.fn = "createDMGWithSafeHardLinks"
    /\ Top.pc \notin {"start", "stage"}

\* the step leaves what every staged link shares with the source, the file
\* behind a hard link or a symbolic link, as it was
SourceKept ==
    \A x \in DOMAIN staged :
        staged[x].ino # NoIno =>
            (x \in DOMAIN staged' => staged'[x].data = staged[x].data)

\* without a symbolic-link item named .background no step after staging
\* changes a source file
SourceKeptWithoutBackgroundLink ==
    [][(SafeStagingDone /\ \A k \in DOMAIN cfg.Contents : cfg.Contents[k] # BgLink)
          => SourceKept]_vars

\* C32: in the safe hard-link variant, for every content list with unique
\* base names, no step after staging (layout-metadata write, background copy,
\* image creation, removal of the staging area) changes or deletes a file of
\* the original source tree
C32_SourceUntouchedAfterStaging == [][SafeStagingDone => SourceKept]_vars

\* the step is the deferred os.RemoveAll(tempDir) of tmpMount
TmpMountRemoval ==
    /\ Unwinding
    /\ Top.fn = "tmpMount"
    /\ Top.defers # <<>>
    /\ NextDefer.op = "RemoveAll"
    /\ stack' = PopDefer

\* the removal deletes nothing inside an image
ImagesKept == \A p \in DOMAIN images : p \in DOMAIN images' /\ images'[p].root = images[p].root

\* when the detach of tmpMount succeeded, or it failed and the volume is gone
\* all the same, the removal runs over an empty mount point
RemovalAfterDetachIsClean ==
    [][(TmpMountRemoval /\ MountedAt(NextDefer.dir) = {}) => ImagesKept]_vars

\* C33: tmpMount removes its mount-point directory only in states where the
\* image is no longer attached there, so that a failed detach never leads to
\* the contents of the writable image being deleted
C33_RemovalOnlyWhenDetached ==
    [][TmpMountRemoval => (MountedAt(NextDefer.dir) = {} /\ ImagesKept)]_vars

\* the files of the caller that are not at the output path
ForeignFiles == {p \in DOMAIN images : images[p].role = "foreign" /\ p # cfg.FileName}

\* the step leaves file p as it is
FileKept(p) == p \in DOMAIN images' /\ images'[p] = images[p]

\* a file of the caller that does not lie at the name of the intermediate
\* image is never deleted or overwritten
ForeignElsewhereKept ==
    [][\A p \in ForeignFiles : p # BashTempName(DefaultFileName(cfg)) => FileKept(p)]_vars

\* C34: a build never deletes or overwrites a file that existed before it
\* started and is not the output path; the deferred removal of the name of the
\* intermediate image never removes such a file when the build fails before
\* it created the intermediate image
C34_ForeignFilesKept == [][\A p \in ForeignFiles : FileKept(p)]_vars

====
